---- MODULE Spec2Model ----
(***************************************************************************)
(* Model of the crafting rules engine of poe2-craft-guide: the condition   *)
(* evaluator and the action executor (actionSystem), the item mutators     *)
(* (itemUtils), and the guide step executor and guide manager              *)
(* (src/utils/guideSystem.ts).                                             *)
(*                                                                         *)
(* Conventions.                                                            *)
(*  - A JavaScript value is a tagged record [t, v] (Str, Num, Bool, Undef,  *)
(*    Obj) so that === can tell a number from a string.                    *)
(*  - A call that may throw returns a record with a field thrown; the      *)
(*    message of the Error is in msg.                                      *)
(*  - uuidv4() is a counter: every call returns the next unused number.    *)
(*  - Math.random() returns d / RandDen for a d in 0..RandDen-1; the draws *)
(*    of one call are read, in order, from an oracle chosen by the caller. *)
(*  - An item keeps the fields the engine reads or writes: id, rarity,     *)
(*    isCorrupted, quality, properties (name -> value), modifiers,         *)
(*    sockets. A dotted target is kept as the list of its parts.           *)
(*  - The 'contains' operator is not modelled; no condition here uses it.  *)
(***************************************************************************)
EXTENDS Integers, Sequences, FiniteSets, TLC

VARIABLES guides, es, run, uuid, last, heap, pair

vars == <<guides, es, run, uuid, last, heap, pair>>

---------------------------------------------------------------------------
(* Bounds of the model *)

\* Math.random() is a multiple of 1/RandDen
RandDen == 5
\* number of Math.random() draws one operation may consume
MaxDraws == 2

Draws == 0 .. (RandDen - 1)
Oracles == [1 .. MaxDraws -> Draws]

---------------------------------------------------------------------------
(* JavaScript values *)

Str(s) == [t |-> "str", v |-> s]
Num(n) == [t |-> "num", v |-> n]
Bool(b) == [t |-> "bool", v |-> b]
Undef == [t |-> "undef", v |-> 0]
Obj == [t |-> "obj", v |-> 0]

\* a === b on primitives; an object is never identical to a condition's value
StrictEquals(a, b) == a.t = b.t /\ a.t # "obj" /\ a.v = b.v

\* the integers a string of the model can spell
Spelled == -20 .. 20

\* Number(s) for a string: 0 for the empty string, n for the decimal spelling
\* of n, NaN for any other text
StringToNumber(s) ==
  IF s = "" THEN [nan |-> FALSE, n |-> 0]
  ELSE IF \E n \in Spelled : ToString(n) = s
    THEN [nan |-> FALSE, n |-> CHOOSE n \in Spelled : ToString(n) = s]
  ELSE [nan |-> TRUE, n |-> 0]

\* Number(x): [nan, n]
ToNumber(x) ==
  CASE x.t = "num" -> [nan |-> FALSE, n |-> x.v]
    [] x.t = "bool" -> [nan |-> FALSE, n |-> IF x.v THEN 1 ELSE 0]
    [] x.t = "str" -> StringToNumber(x.v)
    [] OTHER -> [nan |-> TRUE, n |-> 0]

\* String(x)
ToText(x) ==
  CASE x.t = "str" -> x.v
    [] x.t = "num" -> ToString(x.v)
    [] x.t = "bool" -> IF x.v THEN "true" ELSE "false"
    [] x.t = "undef" -> "undefined"
    [] OTHER -> "[object Object]"

\* a.includes(b) on strings
IncludesText(a, b) ==
  \E k \in 1 .. (Len(a) - Len(b) + 1) : SubSeq(a, k, k + Len(b) - 1) = b

\* the truthiness of a value
Truthy(x) ==
  CASE x.t = "num" -> x.v # 0
    [] x.t = "bool" -> x.v
    [] x.t = "str" -> x.v # ""
    [] x.t = "undef" -> FALSE
    [] OTHER -> TRUE

\* a || b
JsOr(a, b) == IF Truthy(a) THEN a ELSE b

Max(a, b) == IF a >= b THEN a ELSE b
Min(a, b) == IF a <= b THEN a ELSE b

\* The tables of evaluators, handlers and actions are object literals ({}),
\* read as table[name]: a name nobody registered still resolves when it names
\* a function every object inherits from Object.prototype.
InheritedMembers ==
  {"constructor", "hasOwnProperty", "isPrototypeOf", "propertyIsEnumerable",
   "toLocaleString", "toString", "valueOf"}

\* what table[name](item, ...) returns for an inherited member: false from
\* hasOwnProperty, isPrototypeOf and propertyIsEnumerable, the item itself
\* from constructor (Object(item)), the table from valueOf, the text
\* '[object Object]' from toString and toLocaleString
inheritedReturn(name, item) ==
  CASE name \in {"hasOwnProperty", "isPrototypeOf", "propertyIsEnumerable"} -> Bool(FALSE)
    [] name = "constructor" -> item
    [] name = "valueOf" -> Obj
    [] OTHER -> Str("[object Object]")

\* the truthiness of table[name](x, ...) for an inherited member and an object
\* x: hasOwnProperty, isPrototypeOf and propertyIsEnumerable answer false
\* (the table has no own member '[object Object]' and is no prototype of x),
\* constructor returns x, valueOf the table, toString and toLocaleString the
\* text '[object Object]'
inheritedTruth(name) ==
  name \notin {"hasOwnProperty", "isPrototypeOf", "propertyIsEnumerable"}

---------------------------------------------------------------------------
(* Item model (itemUtils) *)

createModifier(id, name, tier, type) ==
  [id |-> id, name |-> name, tier |-> tier, type |-> type]

createSocket(id, color) == [id |-> id, color |-> color, links |-> <<>>]

updateProperty(item, name, value) ==
  IF name \in DOMAIN item.properties
    THEN [item EXCEPT !.properties[name] = value]
    ELSE item

addModifier(item, modifier) ==
  [item EXCEPT !.modifiers = Append(@, modifier)]

removeModifier(item, modifierId) ==
  [item EXCEPT !.modifiers = SelectSeq(@, LAMBDA m : m.id # modifierId)]

addSocket(item, socket) == [item EXCEPT !.sockets = Append(@, socket)]

removeSocket(item, socketId) ==
  [item EXCEPT !.sockets = SelectSeq(@, LAMBDA s : s.id # socketId)]

\* a linkSockets that adds the other ids to the links a socket has
linkSocketsAdding(item, socketIds) ==
  [item EXCEPT !.sockets =
     [k \in DOMAIN @ |->
        IF \E j \in DOMAIN socketIds : socketIds[j] = @[k].id
          THEN [@[k] EXCEPT !.links = @ \o SelectSeq(socketIds, LAMBDA x : x # item.sockets[k].id)]
          ELSE @[k]]]

linkSockets(item, socketIds) ==
  LET InIds(id) == \E k \in DOMAIN socketIds : socketIds[k] = id
      Relink(socket) ==
        IF InIds(socket.id)
          THEN [socket EXCEPT !.links = SelectSeq(socketIds, LAMBDA x : x # socket.id)]
          ELSE socket
  IN [item EXCEPT !.sockets = [k \in DOMAIN item.sockets |-> Relink(item.sockets[k])]]

corruptItem(item) == [item EXCEPT !.isCorrupted = TRUE]

\* draft.properties[name] = createProperty(name, value, type)
addProperty(item, name, value) ==
  [item EXCEPT !.properties =
     [n \in (DOMAIN @) \cup {name} |-> IF n = name THEN value ELSE @[n]]]

\* delete draft.properties[name]
removeProperty(item, name) ==
  [item EXCEPT !.properties = [n \in (DOMAIN @) \ {name} |-> @[n]]]

\* Object.assign(modifier, updates): updates is a function from some of the
\* fields of a modifier to their new values
Assign(modifier, updates) ==
  [f \in DOMAIN modifier |-> IF f \in DOMAIN updates THEN updates[f] ELSE modifier[f]]

\* the first modifier of that id, if any, takes the updates
updateModifier(item, modifierId, updates) ==
  [item EXCEPT !.modifiers =
     [k \in DOMAIN @ |->
        IF @[k].id = modifierId /\ \A j \in 1 .. (k - 1) : @[j].id # modifierId
          THEN Assign(@[k], updates)
          ELSE @[k]]]

hasProperty(item, propertyName) == propertyName \in DOMAIN item.properties

getPropertyValue(item, propertyName) ==
  IF propertyName \in DOMAIN item.properties
    THEN item.properties[propertyName]
    ELSE Undef

hasModifier(item, modifierName) ==
  \E k \in DOMAIN item.modifiers : item.modifiers[k].name = modifierName

\* index of the first modifier of that name, 0 when there is none
getModifier(item, modifierName) ==
  IF hasModifier(item, modifierName)
    THEN CHOOSE k \in DOMAIN item.modifiers :
           /\ item.modifiers[k].name = modifierName
           /\ \A j \in 1 .. (k - 1) : item.modifiers[j].name # modifierName
    ELSE 0

getPrefixCount(item) == Len(SelectSeq(item.modifiers, LAMBDA m : m.type = "prefix"))
getSuffixCount(item) == Len(SelectSeq(item.modifiers, LAMBDA m : m.type = "suffix"))

getMaxModifiers(item) ==
  CASE item.rarity = "normal" -> [prefix |-> 0, suffix |-> 0]
    [] item.rarity = "magic" -> [prefix |-> 1, suffix |-> 1]
    [] item.rarity = "rare" -> [prefix |-> 3, suffix |-> 3]
    [] item.rarity = "unique" -> [prefix |-> 6, suffix |-> 6]
    [] OTHER -> [prefix |-> 0, suffix |-> 0]

\* array.join(separator) of an array of strings
RECURSIVE Join(_, _)
Join(strings, separator) ==
  IF Len(strings) = 0 THEN ""
  ELSE IF Len(strings) = 1 THEN strings[1]
  ELSE strings[1] \o separator \o Join(Tail(strings), separator)

\* a check that reports a count that has reached the maximum
TooManyAtMax(type, count, max) ==
  IF count >= max
    THEN <<"Too many " \o type \o " modifiers: " \o ToString(count) \o "/"
           \o ToString(max)>>
    ELSE <<>>

\* `Too many prefix modifiers: count/max`, when count > max
TooMany(type, count, max) ==
  IF count > max
    THEN <<"Too many " \o type \o " modifiers: " \o ToString(count) \o "/"
           \o ToString(max)>>
    ELSE <<>>

\* modifierNames.filter((name, index) => modifierNames.indexOf(name) !== index)
Duplicates(modifiers) ==
  LET Repeated(k) == \E j \in 1 .. (k - 1) : modifiers[j].name = modifiers[k].name
      F[k \in 0 .. Len(modifiers)] ==
        IF k = 0 THEN <<>>
        ELSE IF Repeated(k) THEN Append(F[k - 1], modifiers[k].name)
        ELSE F[k - 1]
  IN F[Len(modifiers)]

DuplicateErrors(duplicates) ==
  IF Len(duplicates) > 0
    THEN <<"Duplicate modifiers: " \o Join(duplicates, ", ")>>
    ELSE <<>>

\* item.sockets.find(s => s.id === linkedId): its index, 0 when there is none
FindSocket(item, linkedId) ==
  IF \E k \in DOMAIN item.sockets : item.sockets[k].id = linkedId
    THEN CHOOSE k \in DOMAIN item.sockets :
           /\ item.sockets[k].id = linkedId
           /\ \A j \in 1 .. (k - 1) : item.sockets[j].id # linkedId
    ELSE 0

Includes(array, x) == \E k \in DOMAIN array : array[k] = x

\* the errors of one link of one socket
LinkErrors(item, socket, linkedId, found) ==
  IF found = 0
    THEN <<"Socket " \o ToString(socket.id) \o " linked to non-existent socket "
           \o ToString(linkedId)>>
  ELSE IF ~Includes(item.sockets[found].links, socket.id)
    THEN <<"Socket link is not bidirectional: " \o ToString(socket.id) \o " -> "
           \o ToString(linkedId)>>
  ELSE <<>>

\* socket.links.forEach(...) from link k on
RECURSIVE SocketLinkErrors(_, _, _)
SocketLinkErrors(item, socket, k) ==
  IF k > Len(socket.links) THEN <<>>
  ELSE LinkErrors(item, socket, socket.links[k], FindSocket(item, socket.links[k]))
       \o SocketLinkErrors(item, socket, k + 1)

\* item.sockets.forEach(...) from socket k on
RECURSIVE SocketErrors(_, _)
SocketErrors(item, k) ==
  IF k > Len(item.sockets) THEN <<>>
  ELSE SocketLinkErrors(item, item.sockets[k], 1) \o SocketErrors(item, k + 1)

ValidationResult(errors) == [isValid |-> Len(errors) = 0, errors |-> errors]

validateItem(item) ==
  ValidationResult(
    TooMany("prefix", getPrefixCount(item), getMaxModifiers(item).prefix)
    \o TooMany("suffix", getSuffixCount(item), getMaxModifiers(item).suffix)
    \o DuplicateErrors(Duplicates(item.modifiers))
    \o SocketErrors(item, 1))

\* cloneItem: the same content under a fresh id
cloneItem(item, id) == [item EXCEPT !.id = id]

\* everything of an item but its id
Content(item) == [item EXCEPT !.id = 0]

---------------------------------------------------------------------------
(* Condition evaluator (ConditionEvaluator) *)

Ok(b) == [thrown |-> FALSE, val |-> b, msg |-> ""]
Throw(m) == [thrown |-> TRUE, val |-> FALSE, msg |-> m]

\* a condition of the closed operator set over a target
Cond(operator, target, value) ==
  [operator |-> operator, target |-> target, value |-> value,
   absent |-> TRUE, conditions |-> <<>>, customEvaluator |-> ""]

\* and / or / not over a list of conditions
Composite(operator, conditions) ==
  [operator |-> operator, target |-> <<>>, value |-> Undef,
   absent |-> FALSE, conditions |-> conditions, customEvaluator |-> ""]

\* a condition that names a custom evaluator
CustomCond(operator, target, value, customEvaluator) ==
  [operator |-> operator, target |-> target, value |-> value,
   absent |-> TRUE, conditions |-> <<>>, customEvaluator |-> customEvaluator]

\* the evaluators the constructor registers
customEvaluators == {"corruption_check", "socket_check", "modifier_tier_check"}

\* getNestedValue(modifier, path) for a modifier of the item (k = 0: undefined)
getNestedModifierValue(item, k, path) ==
  IF k = 0 THEN Undef
  ELSE IF path = <<"tier">> THEN Num(item.modifiers[k].tier)
  ELSE IF path = <<"name">> THEN Str(item.modifiers[k].name)
  ELSE IF path = <<"type">> THEN Str(item.modifiers[k].type)
  ELSE Undef

\* getNestedValue(item, path): the fields of the modelled item
getNestedValue(item, path) ==
  IF path = <<>> THEN Obj
  ELSE IF path = <<"rarity">> THEN Str(item.rarity)
  ELSE IF path = <<"isCorrupted">> THEN Bool(item.isCorrupted)
  ELSE IF path = <<"quality">> THEN Num(item.quality)
  ELSE IF path = <<"modifiers">> \/ path = <<"sockets">> \/ path = <<"properties">> THEN Obj
  ELSE IF path = <<"modifiers", "length">> THEN Num(Len(item.modifiers))
  ELSE IF path = <<"sockets", "length">> THEN Num(Len(item.sockets))
  ELSE Undef

getTargetValue(target, item) ==
  CASE target[1] = "item" -> getNestedValue(item, Tail(target))
    [] target[1] = "property" ->
         IF Len(target) >= 2 THEN getPropertyValue(item, target[2]) ELSE Undef
    [] target[1] = "modifier" ->
         IF Len(target) > 2
           THEN getNestedModifierValue(item,
                  getModifier(item, target[2]), SubSeq(target, 3, Len(target)))
           ELSE IF Len(target) = 2 /\ hasModifier(item, target[2]) THEN Obj ELSE Undef
    [] OTHER -> getNestedValue(item, target)

\* target!.split('.') on an absent target is a TypeError
NoTarget == Throw("Cannot read properties of undefined (reading 'split')")

\* a == b: values of one type compare as by ===; undefined equals no value
\* of another type; an object compares by its text '[object Object]'; numbers,
\* strings and booleans of different types compare as numbers
LooseEquals(a, b) ==
  IF a.t = b.t THEN a.t # "obj" /\ a.v = b.v
  ELSE IF a.t = "undef" \/ b.t = "undef" THEN FALSE
  ELSE IF a.t = "obj" THEN b.t = "str" /\ b.v = "[object Object]"
  ELSE IF b.t = "obj" THEN a.t = "str" /\ a.v = "[object Object]"
  ELSE /\ ~ToNumber(a).nan
       /\ ~ToNumber(b).nan
       /\ ToNumber(a).n = ToNumber(b).n

\* an evaluateEquals that compares with ==
evaluateLooselyEquals(condition, item) ==
  IF condition.target = <<>> THEN NoTarget
  ELSE Ok(LooseEquals(getTargetValue(condition.target, item), condition.value))

evaluateEquals(condition, item) ==
  IF condition.target = <<>> THEN NoTarget
  ELSE Ok(StrictEquals(getTargetValue(condition.target, item), condition.value))

\* a > b and a < b on the results of Number(): false when either is NaN
NumberGreater(a, b) == ~a.nan /\ ~b.nan /\ a.n > b.n
NumberLess(a, b) == ~a.nan /\ ~b.nan /\ a.n < b.n

evaluateGreaterThan(condition, item) ==
  IF condition.target = <<>> THEN NoTarget
  ELSE Ok(NumberGreater(ToNumber(getTargetValue(condition.target, item)),
                        ToNumber(condition.value)))

evaluateLessThan(condition, item) ==
  IF condition.target = <<>> THEN NoTarget
  ELSE Ok(NumberLess(ToNumber(getTargetValue(condition.target, item)),
                     ToNumber(condition.value)))

\* the target resolves to one of the item's arrays (of objects)
IsArrayTarget(target) ==
  (IF target[1] = "item" THEN Tail(target) ELSE target) \in {<<"modifiers">>, <<"sockets">>}

\* an array of modifier or socket objects includes no condition value; any
\* other value is searched as text
evaluateContains(condition, item) ==
  IF condition.target = <<>> THEN NoTarget
  ELSE IF IsArrayTarget(condition.target) THEN Ok(FALSE)
  ELSE Ok(IncludesText(ToText(getTargetValue(condition.target, item)),
                       ToText(condition.value)))

evaluateHasModifier(condition, item) ==
  Ok(condition.value.t = "str" /\ hasModifier(item, condition.value.v))

evaluateHasProperty(condition, item) ==
  Ok(condition.value.t = "str" /\ hasProperty(item, condition.value.v))

evaluateCorruptionCheck(condition, item) ==
  Ok(StrictEquals(Bool(item.isCorrupted), condition.value))

\* a >= b on a number and the result of Number()
NumberAtLeast(a, b) == ~b.nan /\ a >= b.n

evaluateSocketCheck(condition, item) ==
  Ok(NumberAtLeast(Len(item.sockets), ToNumber(condition.value)))

\* modifier ? modifier.tier >= condition.value : false, for the modifier at k
TierAtLeast(item, k, value) == k # 0 /\ NumberAtLeast(item.modifiers[k].tier, ToNumber(value))

evaluateModifierTierCheck(condition, item) ==
  Ok(TierAtLeast(item,
                 IF Len(condition.target) = 1
                   THEN getModifier(item, condition.target[1]) ELSE 0,
                 condition.value))

RECURSIVE evaluate(_, _)
RECURSIVE evaluateEvery(_, _)
RECURSIVE evaluateSome(_, _)
RECURSIVE everyAfter(_, _, _)
RECURSIVE someAfter(_, _, _)

\* conditions.every(c => evaluate(c, item)): stops at the first false, a throw
\* of a condition it reaches propagates
evaluateEvery(conditions, item) ==
  IF conditions = <<>> THEN Ok(TRUE)
  ELSE everyAfter(evaluate(Head(conditions), item), Tail(conditions), item)

\* every, once its first condition has evaluated to r
everyAfter(r, rest, item) ==
  IF r.thrown \/ ~r.val THEN r ELSE evaluateEvery(rest, item)

\* conditions.some(c => evaluate(c, item)): stops at the first true
evaluateSome(conditions, item) ==
  IF conditions = <<>> THEN Ok(FALSE)
  ELSE someAfter(evaluate(Head(conditions), item), Tail(conditions), item)

\* some, once its first condition has evaluated to r
someAfter(r, rest, item) ==
  IF r.thrown \/ r.val THEN r ELSE evaluateSome(rest, item)

\* !r, a throw propagating
Negate(r) == IF r.thrown THEN r ELSE Ok(~r.val)

evaluateAnd(condition, item) ==
  IF condition.absent THEN Ok(TRUE) ELSE evaluateEvery(condition.conditions, item)

evaluateOr(condition, item) ==
  IF condition.absent THEN Ok(FALSE) ELSE evaluateSome(condition.conditions, item)

\* a not that negates the conjunction of all its entries
notOfEvery(condition, item) ==
  IF condition.absent \/ Len(condition.conditions) = 0 THEN Ok(TRUE)
  ELSE Negate(evaluateEvery(condition.conditions, item))

evaluateNot(condition, item) ==
  IF condition.absent \/ Len(condition.conditions) = 0 THEN Ok(TRUE)
  ELSE Negate(evaluate(condition.conditions[1], item))

evaluate(condition, item) ==
  CASE condition.operator = "equals" -> evaluateEquals(condition, item)
    [] condition.operator = "notEquals" -> Negate(evaluateEquals(condition, item))
    [] condition.operator = "greaterThan" -> evaluateGreaterThan(condition, item)
    [] condition.operator = "lessThan" -> evaluateLessThan(condition, item)
    [] condition.operator = "contains" -> evaluateContains(condition, item)
    [] condition.operator = "hasModifier" -> evaluateHasModifier(condition, item)
    [] condition.operator = "hasProperty" -> evaluateHasProperty(condition, item)
    [] condition.operator = "and" -> evaluateAnd(condition, item)
    [] condition.operator = "or" -> evaluateOr(condition, item)
    [] condition.operator = "not" -> evaluateNot(condition, item)
    [] OTHER ->
         IF condition.customEvaluator \in customEvaluators
           THEN CASE condition.customEvaluator = "corruption_check" ->
                       evaluateCorruptionCheck(condition, item)
                  [] condition.customEvaluator = "socket_check" ->
                       evaluateSocketCheck(condition, item)
                  [] OTHER -> evaluateModifierTierCheck(condition, item)
         ELSE IF condition.customEvaluator \in InheritedMembers
           THEN Ok(inheritedTruth(condition.customEvaluator))
           ELSE Throw("Unknown condition operator: " \o condition.operator)

---------------------------------------------------------------------------
(* Action executor (ActionExecutor) *)

\* An item change. The fields a change does not carry are absent: target "",
\* value Undef, tier 0 (value?.tier), color "" (value?.color), socketIds <<>>,
\* modifierId 0, socketId 0, customHandler "".
Change(type) ==
  [type |-> type, target |-> "", value |-> Undef, tier |-> 0, color |-> "",
   socketIds |-> <<>>, modifierId |-> 0, socketId |-> 0, customHandler |-> ""]

\* An outcome; probability is a weight in tenths (1.0 is 10). absent: the
\* outcome carries no conditions member.
Outcome(probability, description, changes) ==
  [probability |-> probability, description |-> description, changes |-> changes,
   absent |-> TRUE, conditions |-> <<>>]

OutcomeIf(probability, description, changes, conditions) ==
  [probability |-> probability, description |-> description, changes |-> changes,
   absent |-> FALSE, conditions |-> conditions]

\* the handlers the constructor registers
customHandlers ==
  {"chaos_orb", "alchemy_orb", "regal_orb", "exalted_orb", "divine_orb"}

\* Math.floor(Math.random() * n) for the draw d
FloorRandom(d, n) == (d * n) \div RandDen

\* the modifiers name 1 .. name n of one type, with fresh ids from uuid on
\* a variant of RandomModifiers that gives every modifier the name of the first
SameNamedModifiers(name, type, n, id) ==
  [i \in 1 .. n |-> createModifier(id + i - 1, name \o ToString(1), 1, type)]

RandomModifiers(name, type, n, id) ==
  [i \in 1 .. n |-> createModifier(id + i - 1, name \o ToString(i), 1, type)]

\* a Chaos Orb that adds its modifiers to those the item has
chaosKeepingModifiers(item, id, oracle, used) ==
  [item |-> [item EXCEPT !.modifiers =
               @ \o RandomModifiers("Random Prefix ", "prefix",
                                    FloorRandom(oracle[used + 1], 4), id)],
   uuid |-> id + FloorRandom(oracle[used + 1], 4),
   used |-> used + 2]

\* handlers return the new item, the next unused uuid and the draws consumed
handleChaosOrb(item, id, oracle, used) ==
  LET numPrefixes == FloorRandom(oracle[used + 1], 4)
      numSuffixes == FloorRandom(oracle[used + 2], 4)
  IN [item |-> [item EXCEPT !.modifiers =
                  RandomModifiers("Random Prefix ", "prefix", numPrefixes, id)
                  \o RandomModifiers("Random Suffix ", "suffix", numSuffixes, id + numPrefixes)],
      uuid |-> id + numPrefixes + numSuffixes,
      used |-> used + 2]

\* an Alchemy Orb whose number of prefixes is not capped
handleAlchemyOrbUncapped(item, id, oracle, used) ==
  LET numModifiers == 4 + FloorRandom(oracle[used + 1], 3)
      numPrefixes == (numModifiers \div 2) + FloorRandom(oracle[used + 2], 2)
      numSuffixes == Min(3, numModifiers - numPrefixes)
  IN [item |-> [item EXCEPT !.rarity = "rare",
                            !.modifiers =
                  RandomModifiers("Alch Prefix ", "prefix", numPrefixes, id)
                  \o RandomModifiers("Alch Suffix ", "suffix", numSuffixes, id + numPrefixes)],
      uuid |-> id + numPrefixes + numSuffixes,
      used |-> used + 2]

handleAlchemyOrb(item, id, oracle, used) ==
  LET numModifiers == 4 + FloorRandom(oracle[used + 1], 3)
      numPrefixes == Min(3, (numModifiers \div 2) + FloorRandom(oracle[used + 2], 2))
      numSuffixes == Min(3, numModifiers - numPrefixes)
  IN [item |-> [item EXCEPT !.rarity = "rare",
                            !.modifiers =
                  RandomModifiers("Alch Prefix ", "prefix", numPrefixes, id)
                  \o RandomModifiers("Alch Suffix ", "suffix", numSuffixes, id + numPrefixes)],
      uuid |-> id + numPrefixes + numSuffixes,
      used |-> used + 2]

\* Math.random() < 0.5 ? 'prefix' : 'suffix'
RandomType(d) == IF 2 * d < RandDen THEN "prefix" ELSE "suffix"

handleRegalOrb(item, id, oracle, used) ==
  LET modifierType == RandomType(oracle[used + 1])
  IN [item |-> addModifier([item EXCEPT !.rarity = "rare"],
                 createModifier(id, "Regal " \o modifierType, 1, modifierType)),
      uuid |-> id + 1,
      used |-> used + 1]

handleExaltedOrb(item, id, oracle, used) ==
  LET modifierType == RandomType(oracle[used + 1])
  IN [item |-> addModifier(item,
                 createModifier(id, "Exalted " \o modifierType, 1, modifierType)),
      uuid |-> id + 1,
      used |-> used + 1]

handleDivineOrb(item, id, oracle, used) ==
  [item |-> [item EXCEPT !.modifiers =
               [k \in DOMAIN item.modifiers |->
                  [item.modifiers[k] EXCEPT !.tier =
                     Max(1, @ + FloorRandom(oracle[used + k], 3) - 1)]]],
   uuid |-> id,
   used |-> used + Len(item.modifiers)]

\* this.customHandlers[name](item, action, context)
callHandler(name, item, id, oracle, used) ==
  CASE name = "chaos_orb" -> handleChaosOrb(item, id, oracle, used)
    [] name = "alchemy_orb" -> handleAlchemyOrb(item, id, oracle, used)
    [] name = "regal_orb" -> handleRegalOrb(item, id, oracle, used)
    [] name = "exalted_orb" -> handleExaltedOrb(item, id, oracle, used)
    [] name = "divine_orb" -> handleDivineOrb(item, id, oracle, used)

\* a variant of canExecuteAction that is content with one precondition
canExecuteOnAnyPrecondition(action, item) == evaluateSome(action.preconditions, item)

canExecuteAction(action, item) == evaluateEvery(action.preconditions, item)

RECURSIVE SumProbability(_)
SumProbability(outcomes) ==
  IF outcomes = <<>> THEN 0
  ELSE Head(outcomes).probability + SumProbability(Tail(outcomes))

\* a walk that stops only where the running total exceeds the draw
RECURSIVE walkPastTies(_, _, _, _, _)
walkPastTies(outcomes, k, accumulator, d, total) ==
  IF k > Len(outcomes) THEN Len(outcomes)
  ELSE IF d * total < (accumulator + outcomes[k].probability) * RandDen THEN k
  ELSE walkPastTies(outcomes, k + 1, accumulator + outcomes[k].probability, d, total)

\* the walk of selectOutcomeByProbability from outcome k on; the draw is d / RandDen
RECURSIVE WalkOutcomes(_, _, _, _, _)
WalkOutcomes(outcomes, k, accumulator, d, total) ==
  IF k > Len(outcomes) THEN Len(outcomes)
  ELSE IF d * total <= (accumulator + outcomes[k].probability) * RandDen THEN k
  ELSE WalkOutcomes(outcomes, k + 1, accumulator + outcomes[k].probability, d, total)

\* index of the selected outcome and the draws consumed. With a single
\* outcome the walk and its fallback both return it whatever Math.random()
\* gives, and no draw is read from the oracle.
selectOutcomeByProbability(outcomes, oracle, used) ==
  LET totalProbability == SumProbability(outcomes)
  IN IF totalProbability <= 0 \/ Len(outcomes) = 1
       THEN [k |-> 1, used |-> used]
       ELSE [k |-> WalkOutcomes(outcomes, 1, 0, oracle[used + 1], totalProbability),
             used |-> used + 1]

\* a switch whose remaining cases clear the modifiers
clearedByChange(item, id) == [item |-> [item EXCEPT !.modifiers = <<>>], uuid |-> id]

\* case 'custom' and default: a warning, modifiedItem stays as it is
skippedChange(item, id) == [item |-> item, uuid |-> id]

applyChange(item, change, id) ==
  CASE change.type = "addModifier" ->
         IF change.modifierId # 0
           THEN [item |-> addModifier(item,
                            createModifier(id, change.target,
                               IF change.tier # 0 THEN change.tier ELSE 1, "prefix")),
                 uuid |-> id + 1]
           ELSE [item |-> item, uuid |-> id]
    [] change.type = "removeModifier" ->
         [item |-> IF change.modifierId # 0
                     THEN removeModifier(item, change.modifierId) ELSE item,
          uuid |-> id]
    [] change.type = "modifyProperty" ->
         [item |-> IF change.target # ""
                     THEN updateProperty(item, change.target, change.value) ELSE item,
          uuid |-> id]
    [] change.type = "addSocket" ->
         [item |-> addSocket(item,
                     createSocket(id, IF change.color # "" THEN change.color ELSE "white")),
          uuid |-> id + 1]
    [] change.type = "removeSocket" ->
         [item |-> IF change.socketId # 0
                     THEN removeSocket(item, change.socketId) ELSE item,
          uuid |-> id]
    [] change.type = "linkSockets" ->
         [item |-> IF change.socketIds # <<>>
                     THEN linkSockets(item, change.socketIds) ELSE item,
          uuid |-> id]
    [] change.type = "corrupt" -> [item |-> corruptItem(item), uuid |-> id]
    [] OTHER -> skippedChange(item, id)

RECURSIVE applyChanges(_, _, _)
RECURSIVE applyRest(_, _)

applyChanges(item, changes, id) ==
  IF changes = <<>> THEN [item |-> item, uuid |-> id]
  ELSE applyRest(applyChange(item, Head(changes), id), Tail(changes))

\* a variant of applyRest that leaves out the last change of a list of
\* several
applyAllButLast(r, changes) ==
  IF Len(changes) <= 1 THEN r ELSE applyChanges(r.item, changes, r.uuid)

\* the changes after the first, applied to its result r
applyRest(r, changes) == applyChanges(r.item, changes, r.uuid)

\* action.outcomes.filter(...): the indices of the eligible outcomes, or the
\* throw of a condition the filter reached
RECURSIVE validOutcomes(_, _, _)
RECURSIVE validAfter(_, _, _, _)

\* a filter that keeps every outcome from outcome k on
allOutcomes(outcomes, k, item) ==
  [thrown |-> FALSE, msg |-> "", idx |-> [j \in 1 .. Len(outcomes) - k + 1 |-> k + j - 1]]

validOutcomes(outcomes, k, item) ==
  IF k > Len(outcomes) THEN [thrown |-> FALSE, msg |-> "", idx |-> <<>>]
  ELSE validAfter(IF outcomes[k].absent THEN Ok(TRUE)
                  ELSE evaluateEvery(outcomes[k].conditions, item),
                  outcomes, k, item)

\* outcome k kept or not in front of the eligible outcomes after it
KeepOutcome(keep, k, rest) ==
  IF rest.thrown \/ ~keep THEN rest ELSE [rest EXCEPT !.idx = <<k>> \o @]

\* the filter from outcome k on, once the conditions of outcome k evaluated to r
validAfter(r, outcomes, k, item) ==
  IF r.thrown THEN [thrown |-> TRUE, msg |-> r.msg, idx |-> <<>>]
  ELSE KeepOutcome(r.val, k, validOutcomes(outcomes, k + 1, item))

\* what executeAction throws
ActionError(msg, item, id, used) ==
  [thrown |-> TRUE, msg |-> msg, item |-> item, outcome |-> 0, path |-> "none",
   uuid |-> id, used |-> used]

\* what executeAction returns: outcome is the index of the reported outcome in
\* action.outcomes, 0 for undefined; path tells which code path produced it
ActionResult(item, outcome, path, id, used) ==
  [thrown |-> FALSE, msg |-> "", item |-> item, outcome |-> outcome, path |-> path,
   uuid |-> id, used |-> used]

\* the custom handler path: h is what the handler returned
executeHandled(h, action) ==
  ActionResult(h.item, IF action.outcomes = <<>> THEN 0 ELSE 1, "handler", h.uuid, h.used)

\* the selected outcome applied: sel is the selection among the eligible
\* outcomes idx, applied the item with the changes of that outcome applied
executeApplied(applied, idx, sel) ==
  ActionResult(applied.item, idx[sel.k], "declared", applied.uuid, sel.used)

executeSelected(sel, idx, action, item, id) ==
  executeApplied(applyChanges(item, action.outcomes[idx[sel.k]].changes, id), idx, sel)

\* the declarative path: valid is the result of the filter
executeDeclared(valid, action, item, id, oracle, used) ==
  IF valid.thrown THEN ActionError(valid.msg, item, id, used)
  ELSE IF valid.idx = <<>>
    THEN ActionError("No valid outcomes for action " \o action.name, item, id, used)
  ELSE executeSelected(
         selectOutcomeByProbability(
           [k \in DOMAIN valid.idx |-> action.outcomes[valid.idx[k]]], oracle, used),
         valid.idx, action, item, id)

\* an executeAction that takes the custom handler path for every named
\* handler, registered or not
executeCheckedByName(can, action, item, id, oracle, used) ==
  IF can.thrown THEN ActionError(can.msg, item, id, used)
  ELSE IF ~can.val
    THEN ActionError("Cannot execute action " \o action.name \o ": preconditions not met",
                     item, id, used)
  ELSE IF action.customHandler \in customHandlers
    THEN executeHandled(callHandler(action.customHandler, item, id, oracle, used), action)
  ELSE IF action.customHandler # ""
    THEN executeHandled([item |-> item, uuid |-> id, used |-> used], action)
  ELSE executeDeclared(validOutcomes(action.outcomes, 1, item), action, item, id, oracle, used)

\* executeAction once canExecuteAction has returned can
executeChecked(can, action, item, id, oracle, used) ==
  IF can.thrown THEN ActionError(can.msg, item, id, used)
  ELSE IF ~can.val
    THEN ActionError("Cannot execute action " \o action.name \o ": preconditions not met",
                     item, id, used)
  ELSE IF action.customHandler # "" /\ action.customHandler \in customHandlers
    THEN executeHandled(callHandler(action.customHandler, item, id, oracle, used), action)
  ELSE IF action.customHandler \in InheritedMembers
    THEN executeHandled([item |-> inheritedReturn(action.customHandler, item),
                         uuid |-> id, used |-> used], action)
  ELSE executeDeclared(validOutcomes(action.outcomes, 1, item), action, item, id, oracle, used)

executeAction(action, item, id, oracle, used) ==
  executeChecked(canExecuteAction(action, item), action, item, id, oracle, used)

---------------------------------------------------------------------------
(* Action registry (ActionRegistryManager) *)

Equals(target, value) == Cond("equals", target, value)

Action(id, name, preconditions, outcomes, customHandler) ==
  [id |-> id, name |-> name, preconditions |-> preconditions,
   outcomes |-> outcomes, customHandler |-> customHandler]

\* the two actions initializeDefaultActions registers
ChaosOrb ==
  Action("chaos_orb", "Chaos Orb",
         <<Equals(<<"rarity">>, Str("rare")), Equals(<<"isCorrupted">>, Bool(FALSE))>>,
         <<Outcome(10, "Rerolls all modifiers", <<Change("reroll")>>)>>,
         "chaos_orb")

AlchemyOrb ==
  Action("alchemy_orb", "Alchemy Orb",
         <<Equals(<<"rarity">>, Str("normal")), Equals(<<"isCorrupted">>, Bool(FALSE))>>,
         <<Outcome(10, "Upgrades to rare with 4-6 modifiers",
                   <<[Change("modifyProperty") EXCEPT !.target = "rarity", !.value = Str("rare")]>>)>>,
         "alchemy_orb")

\* the actions the host registers with registerAction
RegisteredActions ==
  { Action("augment", "Augment", <<>>,
           <<Outcome(10, "Adds a modifier",
                     <<[Change("addModifier") EXCEPT !.target = "Extra", !.modifierId = 1]>>)>>,
           ""),
    Action("polish", "Polish", <<>>,
           <<Outcome(10, "Sets p",
                     <<[Change("modifyProperty") EXCEPT !.target = "p", !.value = Num(1)]>>)>>,
           ""),
    Action("vaal", "Vaal Orb",
           <<Equals(<<"isCorrupted">>, Bool(FALSE))>>,
           <<Outcome(2, "Corrupts and sets p",
                     <<[Change("modifyProperty") EXCEPT !.target = "p", !.value = Num(7)],
                       Change("corrupt"),
                       [Change("modifyProperty") EXCEPT !.target = "p", !.value = Num(8)]>>),
             Outcome(8, "Corrupts and adds",
                     <<[Change("addModifier") EXCEPT !.target = "Vaal", !.tier = 2, !.modifierId = 1],
                       Change("custom"),
                       Change("corrupt"),
                       Change("addSocket")>>)>>,
           ""),
    Action("gated", "Gated", <<>>,
           <<OutcomeIf(10, "Removes the first modifier",
                       <<[Change("removeModifier") EXCEPT !.modifierId = 5]>>,
                       <<Equals(<<"isCorrupted">>, Bool(TRUE))>>),
             OutcomeIf(0, "Links", <<Change("corrupt")>>,
                       <<Cond("greaterThan", <<"item", "quality">>, Num(2))>>)>>,
           ""),
    Action("broken", "Broken",
           <<Cond("matches", <<"rarity">>, Str("rare"))>>,
           <<Outcome(10, "Nothing", <<>>)>>,
           ""),
    Action("guarded", "Guarded",
           <<Equals(<<"rarity">>, Str("magic")), Cond("matches", <<"rarity">>, Str("rare"))>>,
           <<Outcome(10, "Corrupts", <<Change("corrupt")>>)>>,
           ""),
    Action("backward", "Backward",
           <<Cond("matches", <<"rarity">>, Str("rare")), Equals(<<"rarity">>, Str("magic"))>>,
           <<Outcome(10, "Corrupts", <<Change("corrupt")>>)>>,
           ""),
    Action("hollow", "Hollow", <<>>, <<>>, "exalted_orb"),
    Action("scripted", "Scripted",
           <<Cond("lessThan", <<"item", "modifiers", "length">>, Num(6))>>,
           <<Outcome(10, "Corrupts", <<Change("corrupt")>>)>>,
           "unregistered_handler") }

\* this.actions after the constructor and the host's registerAction calls
actions ==
  LET all == {ChaosOrb, AlchemyOrb} \cup RegisteredActions
  IN [id \in {a.id : a \in all} |-> CHOOSE a \in all : a.id = id]

\* the id is one a registerAction call stored an action under
IsRegistered(actionId) == actionId \in DOMAIN actions

\* getAction(id) is not undefined: this.actions[id] on an object literal finds
\* the registered actions and the functions every object inherits
IsFound(actionId) == IsRegistered(actionId) \/ actionId \in InheritedMembers

\* action.preconditions.every(...) on an inherited function, which has no
\* preconditions member
NoPreconditions == "Cannot read properties of undefined (reading 'every')"

registryCanExecuteAction(actionId, item) ==
  IF ~IsFound(actionId) THEN Ok(FALSE)
  ELSE IF ~IsRegistered(actionId) THEN Throw(NoPreconditions)
  ELSE canExecuteAction(actions[actionId], item)

\* an executeAction that takes a missing action for one that cannot be executed
registryExecuteUnchecked(actionId, item, id, oracle, used) ==
  IF ~IsFound(actionId)
    THEN ActionError("Cannot execute action " \o actionId \o ": preconditions not met",
                     item, id, used)
  ELSE IF ~IsRegistered(actionId) THEN ActionError(NoPreconditions, item, id, used)
  ELSE executeAction(actions[actionId], item, id, oracle, used)

registryExecuteAction(actionId, item, id, oracle, used) ==
  IF ~IsFound(actionId)
    THEN ActionError("Action not found: " \o actionId, item, id, used)
  ELSE IF ~IsRegistered(actionId) THEN ActionError(NoPreconditions, item, id, used)
  ELSE executeAction(actions[actionId], item, id, oracle, used)

---------------------------------------------------------------------------
(* Guide step executor (GuideExecutor) *)

\* A GuideStepResult. raised: the call threw instead of returning, message is
\* then the Error's message. Members a result does not carry are Undef.
\* a variant of StepResult whose results send the cursor back to the first step
StepResultToFirst(success, item, message) ==
  [raised |-> FALSE, success |-> success, item |-> item, message |-> message,
   branchPath |-> Undef, shouldLoop |-> Undef, nextStepIndex |-> Num(0)]

StepResult(success, item, message) ==
  [raised |-> FALSE, success |-> success, item |-> item, message |-> message,
   branchPath |-> Undef, shouldLoop |-> Undef, nextStepIndex |-> Undef]

Raised(item, message) ==
  [raised |-> TRUE, success |-> FALSE, item |-> item, message |-> message,
   branchPath |-> Undef, shouldLoop |-> Undef, nextStepIndex |-> Undef]

LinearStep(id, actionId) == [type |-> "linear", id |-> id, actionId |-> actionId]

ConditionalStep(id, condition, trueStep, falseStep) ==
  [type |-> "conditional", id |-> id, condition |-> condition,
   trueStep |-> trueStep, falseStep |-> falseStep]

Branch(condition, steps, label) ==
  [condition |-> condition, steps |-> steps, label |-> label]

BranchStep(id, branches) == [type |-> "branch", id |-> id, branches |-> branches]

LoopStep(id, condition, steps, maxIterations) ==
  [type |-> "loop", id |-> id, condition |-> condition, steps |-> steps,
   maxIterations |-> maxIterations]

\* The state a step execution threads: the stepHistory of the execution
\* state, the next unused uuid and the number of draws read from the oracle.
Thread(hist, id, used) == [hist |-> hist, uuid |-> id, used |-> used]

\* executionState.stepHistory.push({stepId, itemBefore, itemAfter, timestamp})
logStepExecution(st, stepId, itemBefore, itemAfter) ==
  [st EXCEPT !.hist = Append(@, [stepId |-> stepId,
                                 itemBefore |-> cloneItem(itemBefore, st.uuid),
                                 itemAfter |-> cloneItem(itemAfter, st.uuid + 1)]),
             !.uuid = @ + 2]

\* the try block once executeAction has returned result: the step is logged,
\* then the message reads result.outcome.description, which throws when
\* result.outcome is undefined
linearExecuted(result, logged, step, item) ==
  IF result.outcome = 0
    THEN [res |-> Raised(item, "Cannot read properties of undefined (reading 'description')"),
          st |-> logged]
    ELSE [res |-> StepResult(TRUE, result.item,
                    "Successfully executed " \o step.actionId \o ": "
                    \o actions[step.actionId].outcomes[result.outcome].description),
          st |-> logged]

\* the try block once executeAction has returned or thrown
linearAfterAction(result, step, item, st) ==
  IF result.thrown
    THEN [res |-> Raised(item, result.msg),
          st |-> [st EXCEPT !.uuid = result.uuid, !.used = result.used]]
    ELSE linearExecuted(result,
           logStepExecution([st EXCEPT !.uuid = result.uuid, !.used = result.used],
                            step.id, item, result.item),
           step, item)

\* the try block once canExecuteAction has returned or thrown
linearChecked(can, step, item, st, env) ==
  IF can.thrown THEN [res |-> Raised(item, can.msg), st |-> st]
  ELSE IF ~can.val
    THEN [res |-> StepResult(FALSE, item,
                    "Cannot execute action: preconditions not met for " \o step.actionId),
          st |-> st]
  ELSE linearAfterAction(
         registryExecuteAction(step.actionId, item, st.uuid, env.oracle, st.used),
         step, item, st)

\* the try block of executeLinearStep
tryLinearStep(step, item, st, env) ==
  linearChecked(registryCanExecuteAction(step.actionId, item), step, item, st, env)

\* a variant of catchLinearStep that lets the error through
rethrowLinearStep(r, item) == r

\* the catch block of executeLinearStep
catchLinearStep(r, item) ==
  IF r.res.raised
    THEN [r EXCEPT !.res = StepResult(FALSE, item, "Error executing step: " \o r.res.message)]
    ELSE r

executeLinearStep(step, item, st, env) ==
  catchLinearStep(tryLinearStep(step, item, st, env), item)

DefaultMaxLoopIterations == 10

\* step.maxIterations || options.maxLoopIterations || 10
LoopCap(step, options) ==
  JsOr(step.maxIterations, JsOr(options.maxLoopIterations, Num(DefaultMaxLoopIterations))).v

RECURSIVE executeStep(_, _, _, _)
RECURSIVE runSteps(_, _, _, _, _)
RECURSIVE runAfter(_, _, _)
RECURSIVE executeConditionalStep(_, _, _, _)
RECURSIVE conditionalChecked(_, _, _, _, _)
RECURSIVE scanBranches(_, _, _, _, _)
RECURSIVE branchChecked(_, _, _, _, _, _)
RECURSIVE loopWhile(_, _, _, _, _)
RECURSIVE loopChecked(_, _, _, _, _, _)
RECURSIVE loopAfter(_, _, _, _)

\* for (const s of steps) { r = executeStep(s, currentItem); if (!r.success)
\* return ...; currentItem = r.item }: ok tells whether every step succeeded;
\* res is the result that ended the walk, or a success with the running item
\* and the message of the last step ("" when steps is empty)
runSteps(steps, item, st, env, lastMessage) ==
  IF steps = <<>>
    THEN [ok |-> TRUE, res |-> StepResult(TRUE, item, lastMessage), st |-> st]
    ELSE runAfter(executeStep(Head(steps), item, st, env), Tail(steps), env)

\* a walk that goes on with the next step after a step that did not succeed
runAfterFailure(r, rest, env) ==
  IF r.res.raised
    THEN [ok |-> FALSE, res |-> r.res, st |-> r.st]
    ELSE runSteps(rest, r.res.item, r.st, env, r.res.message)

\* the walk once its first step has returned r
runAfter(r, rest, env) ==
  IF r.res.raised \/ ~r.res.success
    THEN [ok |-> FALSE, res |-> r.res, st |-> r.st]
    ELSE runSteps(rest, r.res.item, r.st, env, r.res.message)

\* {...result, message: `Condition ...`, branchPath}
conditionalResult(r, met) ==
  IF r.res.raised THEN r
  ELSE [r EXCEPT !.res.message = "Condition " \o (IF met THEN "met" ELSE "not met")
                                 \o ": " \o @,
                 !.res.branchPath = Str(IF met THEN "true" ELSE "false")]

\* executeConditionalStep once the condition has evaluated to conditionMet
conditionalChecked(conditionMet, step, item, st, env) ==
  IF conditionMet.thrown THEN [res |-> Raised(item, conditionMet.msg), st |-> st]
  ELSE conditionalResult(
         executeStep(IF conditionMet.val THEN step.trueStep ELSE step.falseStep,
                     item, st, env),
         conditionMet.val)

executeConditionalStep(step, item, st, env) ==
  conditionalChecked(evaluate(step.condition, item), step, item, st, env)

\* what executeBranchStep returns once the steps of the matching branch ran
branchResult(out, branch) ==
  IF out.res.raised THEN [res |-> out.res, st |-> out.st]
  ELSE IF ~out.ok
    THEN [res |-> [out.res EXCEPT !.branchPath = Str(branch.label)], st |-> out.st]
  ELSE [res |-> [StepResult(TRUE, out.res.item,
                   "Executed branch '" \o branch.label \o "': "
                   \o (IF out.res.message = "" THEN "completed" ELSE out.res.message))
                 EXCEPT !.branchPath = Str(branch.label)],
        st |-> out.st]

\* the scan of executeBranchStep from branch k on
scanBranches(step, k, item, st, env) ==
  IF k > Len(step.branches)
    THEN [res |-> StepResult(FALSE, item, "No matching branch found"), st |-> st]
    ELSE branchChecked(evaluate(step.branches[k].condition, item), step, k, item, st, env)

\* a variant of branchChecked that goes on scanning after a match: the branch
\* executed is a matching one, but not the first
branchCheckedPastMatch(matches, step, k, item, st, env) ==
  IF matches.thrown THEN [res |-> Raised(item, matches.msg), st |-> st]
  ELSE IF ~matches.val \/ k < Len(step.branches)
    THEN scanBranches(step, k + 1, item, st, env)
  ELSE branchResult(runSteps(step.branches[k].steps, item, st, env, ""), step.branches[k])

\* the scan once the condition of branch k has evaluated to matches
branchChecked(matches, step, k, item, st, env) ==
  IF matches.thrown THEN [res |-> Raised(item, matches.msg), st |-> st]
  ELSE IF ~matches.val THEN scanBranches(step, k + 1, item, st, env)
  ELSE branchResult(runSteps(step.branches[k].steps, item, st, env, ""), step.branches[k])

executeBranchStep(step, item, st, env) == scanBranches(step, 1, item, st, env)

\* the while loop of executeLoopStep after `iterations` iterations, and the
\* return that follows it
loopWhile(step, item, st, env, iterations) ==
  loopChecked(evaluate(step.condition, item), step, item, st, env, iterations)

\* a variant of loopChecked that lets the loop run one iteration beyond its cap
loopCheckedPastCap(conditionMet, step, item, st, env, iterations) ==
  IF conditionMet.thrown THEN [res |-> Raised(item, conditionMet.msg), st |-> st]
  ELSE IF conditionMet.val /\ iterations <= LoopCap(step, env.options)
    THEN loopAfter(runSteps(step.steps, item, st, env, ""), step, env, iterations)
  ELSE [res |-> [StepResult(TRUE, item,
                   "Loop completed after " \o ToString(iterations) \o " iterations"
                   \o (IF conditionMet.val THEN " (max iterations reached)" ELSE ""))
                 EXCEPT !.shouldLoop =
                   Bool(conditionMet.val /\ iterations >= LoopCap(step, env.options))],
        st |-> st]

\* the loop once its condition has evaluated to conditionMet on the running item
loopChecked(conditionMet, step, item, st, env, iterations) ==
  IF conditionMet.thrown THEN [res |-> Raised(item, conditionMet.msg), st |-> st]
  ELSE IF conditionMet.val /\ iterations < LoopCap(step, env.options)
    THEN loopAfter(runSteps(step.steps, item, st, env, ""), step, env, iterations)
  ELSE [res |-> [StepResult(TRUE, item,
                   "Loop completed after " \o ToString(iterations) \o " iterations"
                   \o (IF conditionMet.val THEN " (max iterations reached)" ELSE ""))
                 EXCEPT !.shouldLoop =
                   Bool(conditionMet.val /\ iterations >= LoopCap(step, env.options))],
        st |-> st]

\* the loop once the steps of iteration iterations + 1 ran
loopAfter(out, step, env, iterations) ==
  IF out.res.raised THEN [res |-> out.res, st |-> out.st]
  ELSE IF ~out.ok
    THEN [res |-> [out.res EXCEPT !.message =
                     "Loop iteration " \o ToString(iterations + 1) \o " failed: " \o @],
          st |-> out.st]
  ELSE loopWhile(step, out.res.item, out.st, env, iterations + 1)

executeLoopStep(step, item, st, env) == loopWhile(step, item, st, env, 0)

executeStep(step, item, st, env) ==
  CASE step.type = "linear" -> executeLinearStep(step, item, st, env)
    [] step.type = "conditional" -> executeConditionalStep(step, item, st, env)
    [] step.type = "branch" -> executeBranchStep(step, item, st, env)
    [] step.type = "loop" -> executeLoopStep(step, item, st, env)
    [] OTHER -> [res |-> StepResult(FALSE, item, "Unknown step type: " \o step.type),
                 st |-> st]

---------------------------------------------------------------------------
(* Guide manager (GuideManager) *)

Guide(id, steps) == [id |-> id, steps |-> steps]

FewModifiers == Cond("lessThan", <<"item", "modifiers", "length">>, Num(3))
LowQuality == Cond("lessThan", <<"item", "quality">>, Num(3))

\* the guides the host has created
StoredGuides ==
  { Guide("orbs", <<LinearStep("o1", "alchemy_orb"), LinearStep("o2", "chaos_orb")>>),
    Guide("loop5", <<LoopStep("a1", FewModifiers, <<LinearStep("a2", "augment")>>, Num(5)),
                     LinearStep("a3", "polish")>>),
    Guide("loop2", <<LoopStep("b1", FewModifiers, <<LinearStep("b2", "augment")>>, Num(2)),
                     LinearStep("b3", "vaal")>>),
    Guide("forever", <<LoopStep("f1", LowQuality, <<LinearStep("f2", "polish")>>, Undef),
                       LinearStep("f3", "polish")>>),
    Guide("spin", <<LinearStep("z0", "polish"),
                    LoopStep("z1", LowQuality, <<LinearStep("z2", "polish")>>, Num(0))>>),
    Guide("taint", <<LoopStep("y1", LowQuality,
                              <<LinearStep("y2", "polish"), LinearStep("y3", "vaal")>>,
                              Num(5))>>),
    Guide("branchy",
          <<BranchStep("c1",
              <<Branch(Equals(<<"rarity">>, Str("rare")),
                       <<LinearStep("c2", "chaos_orb")>>, "reroll"),
                Branch(Equals(<<"isCorrupted">>, Bool(FALSE)),
                       <<LinearStep("c3", "polish"), LinearStep("c4", "augment")>>, "fresh"),
                Branch(Equals(<<"rarity">>, Str("normal")),
                       <<LinearStep("c5", "polish"), LinearStep("c6", "vaal"),
                         LinearStep("c7", "augment")>>, "tainted")>>),
            LinearStep("c8", "gated")>>),
    Guide("choice",
          <<ConditionalStep("d1", Cond("hasModifier", <<>>, Str("Extra")),
                            LinearStep("d2", "vaal"), LinearStep("d3", "augment")),
            LinearStep("d4", "hollow"),
            LinearStep("d5", "scripted")>>),
    Guide("faulty",
          <<LinearStep("e1", "guarded"),
            LinearStep("e2", "broken")>>),
    Guide("unknown", <<LinearStep("u1", "missing_action")>>),
    Guide("throwing",
          <<ConditionalStep("t1", Cond("matches", <<"rarity">>, Str("rare")),
                            LinearStep("t2", "polish"), LinearStep("t3", "polish"))>>),
    Guide("empty", <<>>) }

StoredGuideIds == {g.id : g \in StoredGuides}

\* an id no guide is stored under
MissingGuideId == "deleted"

Item(id, rarity, isCorrupted, quality, modifiers) ==
  [id |-> id, rarity |-> rarity, isCorrupted |-> isCorrupted, quality |-> quality,
   properties |-> [n \in {"p"} |-> Num(0)], modifiers |-> modifiers, sockets |-> <<>>]

\* the items executions start from
StartingItems ==
  { Item(1, "normal", FALSE, 0, <<>>),
    Item(2, "rare", FALSE, 0, <<createModifier(5, "Life", 1, "prefix")>>),
    Item(3, "normal", TRUE, 0, <<>>),
    Item(4, "magic", FALSE, 3, <<createModifier(5, "Life", 1, "prefix")>>) }

\* the first uuid not used by a starting item
FirstUuid == 10

Options(maxSteps, maxLoopIterations) ==
  [maxSteps |-> maxSteps, maxLoopIterations |-> maxLoopIterations]

\* a declared step budget
StepBudget == 3
\* a declared options.maxLoopIterations
LoopBudget == 2

OptionSet ==
  { Options(m, l) : m \in {Undef, Num(0), Num(StepBudget)}, l \in {Undef, Num(LoopBudget)} }

NoState == [guideId |-> ""]

createExecutionState(guideId, startingItem, id) ==
  [guideId |-> guideId, currentItem |-> cloneItem(startingItem, id),
   currentStepIndex |-> 0, stepHistory |-> <<>>]

\* a variant of nextStepExecuted that moves the cursor after every success,
\* whether or not the result asks to hold it
nextStepAlwaysAdvancing(r, state) ==
  [res |-> r.res,
   es |-> IF r.res.raised \/ ~r.res.success
            THEN [state EXCEPT !.stepHistory = r.st.hist]
            ELSE [state EXCEPT !.stepHistory = r.st.hist,
                               !.currentItem = r.res.item,
                               !.currentStepIndex = @ + 1],
   uuid |-> r.st.uuid, used |-> r.st.used]

\* executeNextStep once the step at the cursor has returned or thrown r
nextStepExecuted(r, state) ==
  [res |-> r.res,
   es |-> IF r.res.raised \/ ~r.res.success
            THEN [state EXCEPT !.stepHistory = r.st.hist]
          ELSE IF r.res.nextStepIndex # Undef
            THEN [state EXCEPT !.stepHistory = r.st.hist,
                               !.currentItem = r.res.item,
                               !.currentStepIndex = r.res.nextStepIndex.v]
          ELSE IF ~Truthy(r.res.shouldLoop)
            THEN [state EXCEPT !.stepHistory = r.st.hist,
                               !.currentItem = r.res.item,
                               !.currentStepIndex = @ + 1]
          ELSE [state EXCEPT !.stepHistory = r.st.hist,
                             !.currentItem = r.res.item],
   uuid |-> r.st.uuid, used |-> r.st.used]

\* executeNextStep on the execution state `state`: the result, the execution
\* state after the call, the next unused uuid and the draws consumed
executeNextStep(state, options, oracle, id) ==
  IF state.guideId \notin DOMAIN guides
    THEN [res |-> StepResult(FALSE, state.currentItem, "Guide not found"),
          es |-> state, uuid |-> id, used |-> 0]
  ELSE IF state.currentStepIndex >= Len(guides[state.guideId].steps)
    THEN [res |-> StepResult(TRUE, state.currentItem, "Guide completed"),
          es |-> state, uuid |-> id, used |-> 0]
  ELSE nextStepExecuted(
         executeStep(guides[state.guideId].steps[state.currentStepIndex + 1],
                     state.currentItem, Thread(state.stepHistory, id, 0),
                     [oracle |-> oracle, options |-> options]),
         state)

DefaultMaxSteps == 100

\* options.maxSteps || 100
StepCap(options) == JsOr(options.maxSteps, Num(DefaultMaxSteps)).v

---------------------------------------------------------------------------
(* The engine driven by its host *)

\* the host stops calling executeNextStep once the history is this long
MaxHistory == 8

ZeroOracle == [k \in 1 .. MaxDraws |-> 0]

\* the number of draws a call of the engine reads from the oracle
UsedBy(c, oracle) ==
  CASE c.op = "executeNextStep" ->
         executeNextStep(c.state, c.options, oracle, uuid).used
    [] c.op = "executeStep" ->
         executeStep(c.step, c.item, Thread(c.history, uuid, 0),
                     [oracle |-> oracle, options |-> c.options]).st.used
    [] c.op = "executeAction" ->
         registryExecuteAction(c.actionId, c.item, uuid, oracle, 0).used
    [] c.op = "callHandler" ->
         callHandler(c.name, c.item, uuid, oracle, 0).used
    [] c.op = "executorExecuteAction" ->
         executeAction(c.action, c.item, uuid, oracle, 0).used

\* the oracles that tell executions of the call c apart: S holds the oracles
\* that differ in the draws before the k-th; an oracle under which the call
\* reads a k-th draw is split by the value of that draw, and the draws a call
\* never reads stay 0
RECURSIVE ExtendOracles(_, _, _)
ExtendOracles(S, k, c) ==
  IF k > MaxDraws THEN S
  ELSE ExtendOracles(
         UNION { IF UsedBy(c, o) >= k THEN {[o EXCEPT ![k] = d] : d \in Draws} ELSE {o}
                 : o \in S },
         k + 1, c)

OraclesFor(c) == ExtendOracles({ZeroOracle}, 1, c)

NoCall == [op |-> "none"]

\* executeGuide: pc is "idle" (no call), "loop" (in its while loop), "done"
\* (returned {success, executionState, results}; executionState is es) or
\* "raised" (threw message)
IdleRun == [pc |-> "idle"]

Init ==
  /\ guides = [id \in StoredGuideIds |-> CHOOSE g \in StoredGuides : g.id = id]
  /\ es = NoState
  /\ run = IdleRun
  /\ uuid = FirstUuid
  /\ last = NoCall
  /\ heap = <<>>
  /\ pair = <<>>

\* the host creates the execution state it holds
CreateExecutionState ==
  /\ es = NoState
  /\ run.pc = "idle"
  /\ \E guideId \in StoredGuideIds \cup {MissingGuideId}, startingItem \in StartingItems :
       /\ es' = createExecutionState(guideId, startingItem, uuid)
       /\ uuid' = uuid + 1
       /\ last' = [op |-> "createExecutionState", guideId |-> guideId,
                   startingItem |-> startingItem]
  /\ run' = IdleRun
  /\ UNCHANGED <<guides, heap, pair>>

\* the item the execution state was created from
StartedFrom == IF last.op = "executeNextStep" THEN last.start ELSE last.startingItem

\* the effect of a call of executeNextStep that returned or threw r
Stepped(r, options) ==
  /\ es' = r.es
  /\ uuid' = r.uuid
  /\ last' = [op |-> "executeNextStep", before |-> es, options |-> options,
              result |-> r.res, used |-> r.used, start |-> StartedFrom]

\* the host calls executeNextStep on the execution state it holds
ExecuteNextStep ==
  /\ run.pc = "idle"
  /\ es # NoState
  /\ Len(es.stepHistory) < MaxHistory
  /\ \E options \in {o \in OptionSet : o.maxSteps = Undef} :
       \E oracle \in OraclesFor([op |-> "executeNextStep", state |-> es,
                                  options |-> options]) :
         Stepped(executeNextStep(es, options, oracle, uuid), options)
  /\ UNCHANGED <<guides, run, heap, pair>>

\* executeGuide up to its while loop
StartExecuteGuide ==
  /\ es = NoState
  /\ run.pc = "idle"
  /\ \E guideId \in StoredGuideIds \cup {MissingGuideId}, startingItem \in StartingItems,
        options \in OptionSet :
       IF guideId \notin DOMAIN guides
         THEN /\ run' = [pc |-> "raised", message |-> "Guide not found: " \o guideId]
              /\ UNCHANGED <<es, uuid>>
              /\ last' = [op |-> "executeGuide", guideId |-> guideId,
                          startingItem |-> startingItem]
         ELSE /\ run' = [pc |-> "loop", options |-> options, startingItem |-> startingItem,
                         stepCount |-> 0, results |-> <<>>, success |-> FALSE]
              /\ es' = createExecutionState(guideId, startingItem, uuid)
              /\ uuid' = uuid + 1
              /\ last' = [op |-> "executeGuide", guideId |-> guideId,
                          startingItem |-> startingItem]
  /\ UNCHANGED <<guides, heap, pair>>

\* while (currentStepIndex < steps.length && stepCount < maxSteps)
GuideContinues ==
  /\ es.currentStepIndex < Len(guides[es.guideId].steps)
  /\ run.stepCount < StepCap(run.options)

\* a variant of GuideStepped that goes on after a failing step
GuideSteppedThrough(r) ==
  /\ Stepped(r, run.options)
  /\ run' = IF r.res.raised
              THEN [pc |-> "raised", message |-> r.res.message]
              ELSE [run EXCEPT !.results = Append(@, r.res), !.stepCount = @ + 1]

\* the body of the while loop once executeNextStep has returned or thrown r
GuideStepped(r) ==
  /\ Stepped(r, run.options)
  /\ run' = IF r.res.raised
              THEN [pc |-> "raised", message |-> r.res.message]
            ELSE IF ~r.res.success
              THEN [run EXCEPT !.pc = "done", !.results = Append(@, r.res),
                               !.success = FALSE]
            ELSE [run EXCEPT !.results = Append(@, r.res), !.stepCount = @ + 1]

\* one iteration of the while loop of executeGuide
GuideLoopStep ==
  /\ run.pc = "loop"
  /\ GuideContinues
  /\ \E oracle \in OraclesFor([op |-> "executeNextStep", state |-> es,
                                options |-> run.options]) :
       GuideStepped(executeNextStep(es, run.options, oracle, uuid))
  /\ UNCHANGED <<guides, heap, pair>>

\* the return after the while loop of executeGuide
GuideReturn ==
  /\ run.pc = "loop"
  /\ ~GuideContinues
  /\ run' = [run EXCEPT !.pc = "done",
                        !.success = es.currentStepIndex >= Len(guides[es.guideId].steps)]
  /\ UNCHANGED <<guides, es, uuid, last, heap, pair>>

Next ==
  \/ CreateExecutionState
  \/ ExecuteNextStep
  \/ StartExecuteGuide
  \/ GuideLoopStep
  \/ GuideReturn

Spec == Init /\ [][Next]_vars

---------------------------------------------------------------------------
(* The step executor and the action registry called directly by the host *)

Range(f) == {f[k] : k \in DOMAIN f}

\* a step and the steps nested in it
RECURSIVE StepsWithin(_)
StepsWithin(step) ==
  {step} \cup
  CASE step.type = "conditional" ->
         StepsWithin(step.trueStep) \cup StepsWithin(step.falseStep)
    [] step.type = "branch" ->
         UNION {UNION {StepsWithin(s) : s \in Range(b.steps)} : b \in Range(step.branches)}
    [] step.type = "loop" -> UNION {StepsWithin(s) : s \in Range(step.steps)}
    [] OTHER -> {}

\* a branch around a loop, and a loop around a branch, whose inner step fails
\* after a sub-step of its own has succeeded; a loop around a step of no known
\* type
NestedSteps ==
  { BranchStep("n1",
      <<Branch(LowQuality,
               <<LinearStep("n2", "polish"),
                 LoopStep("n3", LowQuality, <<LinearStep("n4", "vaal")>>, Num(5)),
                 LinearStep("n5", "augment")>>, "inner")>>),
    LoopStep("n6", LowQuality,
             <<BranchStep("n7",
                 <<Branch(LowQuality,
                          <<LinearStep("n8", "vaal"), LinearStep("n9", "vaal")>>,
                          "twice")>>),
               LinearStep("n10", "augment")>>,
             Num(2)),
    LoopStep("n11", LowQuality,
             <<LinearStep("n12", "augment"), [type |-> "jump", id |-> "j2"]>>, Undef) }

\* the steps executeStep is called with: those of the stored guides, at any
\* depth, the nested steps, and a step of no known type
CallSteps ==
  UNION {UNION {StepsWithin(s) : s \in Range(g.steps)} : g \in StoredGuides}
  \cup NestedSteps
  \cup {[type |-> "jump", id |-> "j1"]}

Life == createModifier(5, "Life", 1, "prefix")
Extra(id) == createModifier(id, "Extra", 1, "prefix")

\* the items the direct calls are made with
CallItems ==
  { Item(1, rarity, isCorrupted, quality, modifiers) :
      rarity \in {"normal", "magic", "rare"}, isCorrupted \in BOOLEAN,
      quality \in {0, 3},
      modifiers \in {<<>>, <<Life>>, <<Life, Extra(6), Extra(7)>>} }

\* the stepHistory of the execution state executeStep is called with
CallHistories ==
  { <<>>,
    <<[stepId |-> "earlier", itemBefore |-> Item(8, "normal", FALSE, 0, <<>>),
       itemAfter |-> Item(9, "normal", TRUE, 0, <<>>)]>> }

CallOptions == {o \in OptionSet : o.maxSteps = Undef}

\* the action ids the registry is called with
CallActionIds == DOMAIN actions \cup {"missing_action", "toString"}

\* the effect of a call of executeStep that returned or threw r
SteppedDirectly(r, c, oracle) ==
  /\ last' = [op |-> "executeStep", step |-> c.step, item |-> c.item,
              history |-> c.history, options |-> c.options, id |-> uuid,
              oracle |-> oracle, result |-> r.res, after |-> r.st.hist,
              used |-> r.st.used]
  /\ uuid' = r.st.uuid

\* executeStep(step, item, executionState, options)
ExecuteStep ==
  /\ last = NoCall
  /\ \E step \in CallSteps, item \in CallItems, history \in CallHistories,
        options \in CallOptions :
       \E c \in {[op |-> "executeStep", step |-> step, item |-> item,
                  history |-> history, options |-> options]} :
         \E oracle \in OraclesFor(c) :
           SteppedDirectly(executeStep(step, item, Thread(history, uuid, 0),
                                       [oracle |-> oracle, options |-> options]),
                           c, oracle)
  /\ UNCHANGED <<guides, es, run, heap, pair>>

\* actionRegistry.canExecuteAction(actionId, item)
CanExecuteAction ==
  /\ last = NoCall
  /\ \E actionId \in CallActionIds, item \in CallItems :
       last' = [op |-> "canExecuteAction", actionId |-> actionId, item |-> item,
                result |-> registryCanExecuteAction(actionId, item)]
  /\ UNCHANGED <<guides, es, run, uuid, heap, pair>>

\* the effect of a call of executeAction that returned or threw r
ExecutedDirectly(r, c, oracle) ==
  /\ last' = [op |-> "executeAction", actionId |-> c.actionId, item |-> c.item,
              id |-> uuid, oracle |-> oracle, result |-> r]
  /\ uuid' = r.uuid

\* actionRegistry.executeAction(actionId, item)
ExecuteAction ==
  /\ last = NoCall
  /\ \E actionId \in CallActionIds, item \in CallItems :
       \E c \in {[op |-> "executeAction", actionId |-> actionId, item |-> item]} :
         \E oracle \in OraclesFor(c) :
           ExecutedDirectly(registryExecuteAction(actionId, item, uuid, oracle, 0),
                            c, oracle)
  /\ UNCHANGED <<guides, es, run, heap, pair>>

\* the conditions the evaluator is called with: and, or and not over no list,
\* the empty list and the lists of one or two entries that are true or false
\* by the item, raise, or are composite themselves
CallLeaves ==
  { Equals(<<"rarity">>, Str("rare")), Equals(<<"isCorrupted">>, Bool(FALSE)),
    Cond("matches", <<"rarity">>, Str("rare")), Composite("or", <<>>) }

\* conditions without entries: comparisons of the quality and the rarity with
\* numbers and strings, and operators outside the built-in ones with a
\* registered, an unregistered and no custom evaluator
CallSimpleConditions ==
  { Cond(operator, target, value) :
      operator \in {"equals", "notEquals", "greaterThan", "lessThan", "contains"},
      target \in {<<"quality">>, <<"item", "rarity">>},
      value \in {Num(3), Str("3"), Str("rare"), Str("ar"), Undef} }
  \cup { CustomCond(operator, <<"Life">>, value, customEvaluator) :
          operator \in {"matches", "equals", ""},
          value \in {Bool(TRUE), Num(1)},
          customEvaluator \in customEvaluators
                               \cup {"", "level_check", "hasOwnProperty", "toString"} }

CallConditions ==
  { Composite(operator, conditions) :
      operator \in {"and", "or", "not"},
      conditions \in {<<>>} \cup {<<a>> : a \in CallLeaves}
                     \cup {<<a, b>> : a \in CallLeaves, b \in CallLeaves} }
  \cup { [Composite(operator, <<>>) EXCEPT !.absent = TRUE] :
           operator \in {"and", "or", "not"} }
  \cup CallSimpleConditions

\* conditionEvaluator.evaluate(condition, item)
Evaluate ==
  /\ last = NoCall
  /\ \E condition \in CallConditions, item \in CallItems :
       last' = [op |-> "evaluate", condition |-> condition, item |-> item,
                result |-> evaluate(condition, item)]
  /\ UNCHANGED <<guides, es, run, uuid, heap, pair>>

\* the weights, in tenths, of the outcomes a selection is made among
CallWeights == {-2, 0, 2, 8}
MaxOutcomes == 3

CallOutcomeLists ==
  UNION { [1 .. n -> {Outcome(w, "", <<>>) : w \in CallWeights}] : n \in 1 .. MaxOutcomes }

\* selectOutcomeByProbability(outcomes) under the draw oracle[1]
SelectOutcome ==
  /\ last = NoCall
  /\ \E outcomes \in CallOutcomeLists, d \in Draws :
       last' = [op |-> "selectOutcome", outcomes |-> outcomes, draw |-> d,
                result |-> selectOutcomeByProbability(outcomes,
                                                      [ZeroOracle EXCEPT ![1] = d], 0)]
  /\ UNCHANGED <<guides, es, run, uuid, heap, pair>>

\* the actions the Action Executor is called with directly: handlers that are
\* registered, unregistered and inherited, in front of outcomes whose
\* conditions hold, fail or raise
Rare == Equals(<<"rarity">>, Str("rare"))
Corrupted == Equals(<<"isCorrupted">>, Bool(TRUE))
Unknown == Cond("matches", <<"rarity">>, Str("rare"))

CallOutcomes ==
  { <<>>,
    <<Outcome(10, "Corrupts", <<Change("corrupt")>>)>>,
    <<OutcomeIf(5, "Corrupts rare", <<Change("corrupt")>>, <<Rare>>),
      OutcomeIf(5, "Adds to corrupted",
                <<[Change("addModifier") EXCEPT !.target = "Extra", !.modifierId = 1],
                  [Change("modifyProperty") EXCEPT !.target = "p", !.value = Num(1)]>>,
                <<Corrupted>>)>>,
    <<OutcomeIf(5, "Uncorrupts rare",
                <<[Change("modifyProperty") EXCEPT !.target = "isCorrupted",
                                                   !.value = Bool(FALSE)]>>,
                <<Rare, Corrupted>>),
      OutcomeIf(5, "Nothing", <<>>, <<>>)>>,
    <<OutcomeIf(10, "Raises", <<Change("corrupt")>>, <<Unknown>>),
      Outcome(10, "Sets p",
              <<[Change("modifyProperty") EXCEPT !.target = "p", !.value = Num(1)]>>)>> }

\* the changes an outcome of one or two changes is made of: changes with and
\* without the id, the target and the tier they can carry
CallChanges ==
  { <<[Change("addModifier") EXCEPT !.target = "Extra", !.tier = tier,
                                    !.modifierId = modifierId]>> :
      tier \in {0, 2}, modifierId \in {0, 1} }
  \cup { <<[Change("removeModifier") EXCEPT !.modifierId = modifierId]>> :
           modifierId \in {0, 5} }
  \cup { <<Change("addSocket"), [Change("removeSocket") EXCEPT !.socketId = socketId]>> :
           socketId \in {0, FirstUuid} }
  \cup { <<[Change("modifyProperty") EXCEPT !.target = target, !.value = Num(1)]>> :
           target \in {"", "p", "rarity"} }

\* the actions with one outcome of those changes
ChangingActions ==
  { Action("changing", "Changing", <<>>, <<Outcome(10, "Changes", changes)>>, "") :
      changes \in CallChanges }

\* a change the switch of applyChanges has no effect for: 'custom' with a
\* handler name or without, 'reroll', and a type that is none of the declared
Inert(type, customHandler) == [Change(type) EXCEPT !.customHandler = customHandler]

InertChanges ==
  { Inert("custom", h) : h \in {"", "chaos_orb", "toString"} }
  \cup {Inert("reroll", ""), Inert("teleport", "")}

Adds(name) == [Change("addModifier") EXCEPT !.target = name, !.modifierId = 1]

\* the actions with one outcome whose changes hold an inert change in front
\* of, between and behind two changes that add a modifier, or alone
SkippingActions ==
  { Action("skipping", "Skipping", <<>>, <<Outcome(10, "Skips", changes)>>, "") :
      changes \in UNION { { <<x, Adds("First"), Adds("Second")>>,
                            <<Adds("First"), x, Adds("Second")>>,
                            <<Adds("First"), Adds("Second"), x>>,
                            <<x>> } : x \in InertChanges } }

CallActions ==
  { Action("direct", "Direct", <<>>, outcomes, customHandler) :
      outcomes \in CallOutcomes,
      customHandler \in {"", "exalted_orb", "chaos_orb", "unregistered_handler",
                         "hasOwnProperty", "constructor"} }
  \cup ChangingActions
  \cup SkippingActions

\* actionExecutor.executeAction(action, item)
ExecutorExecuteAction ==
  /\ last = NoCall
  /\ \E action \in CallActions, item \in CallItems :
       \E c \in {[op |-> "executorExecuteAction", action |-> action, item |-> item]} :
         \E oracle \in OraclesFor(c) :
           \E r \in {executeAction(action, item, uuid, oracle, 0)} :
             /\ last' = [op |-> "executorExecuteAction", action |-> action,
                         item |-> item, id |-> uuid, oracle |-> oracle, result |-> r]
             /\ uuid' = r.uuid
  /\ UNCHANGED <<guides, es, run, heap, pair>>

NextCall ==
  \/ ExecuteStep
  \/ CanExecuteAction
  \/ ExecuteAction
  \/ ExecutorExecuteAction
  \/ Evaluate
  \/ SelectOutcome

SpecCall == Init /\ [][NextCall]_vars

---------------------------------------------------------------------------
(* The item mutators and the built-in handlers called on items the host    *)
(* holds. heap is the list of the item objects that exist; a reference is  *)
(* an index into it. Every call is made on the newest object, and the      *)
(* objects made before it are still held by the host.                      *)

\* produce(base, recipe) of immer: the recipe writes to a draft, never to the
\* base; a draft left as the base gives the base back, a changed one a new
\* object
produceInPlace(h, ref, value) == [heap |-> [h EXCEPT ![ref] = value], ref |-> ref]

produce(h, ref, value) ==
  IF value = h[ref]
    THEN [heap |-> h, ref |-> ref]
    ELSE [heap |-> Append(h, value), ref |-> Len(h) + 1]

\* { ...item, ... }: an object literal is a new object
spread(h, value) == [heap |-> Append(h, value), ref |-> Len(h) + 1]

\* number of calls made on the held items
MaxCalls == 2

Socket(id, links) == [createSocket(id, "red") EXCEPT !.links = links]

WorkItem(rarity, isCorrupted, modifiers, sockets) ==
  [Item(1, rarity, isCorrupted, 0, modifiers) EXCEPT !.sockets = sockets]

\* the items the host starts with
WorkItems ==
  { WorkItem("normal", FALSE, <<>>, <<>>),
    WorkItem("rare", FALSE, <<Life, Extra(6)>>,
             <<Socket(7, <<8>>), Socket(8, <<7>>), Socket(9, <<>>)>>),
    WorkItem("magic", TRUE, <<Life>>, <<Socket(7, <<8, 9>>), Socket(8, <<7>>)>>) }

PropertyNames == {"p", "q"}
ModifierIds == {5, 6}
ModifierUpdates == {[f \in {"tier"} |-> 2], [f \in {"name", "type"} |-> "suffix"]}
SocketIdLists == {<<>>, <<7>>, <<7, 8>>, <<9, 7>>, <<8, 9, 7>>, <<7, 7, 8>>, <<8, 12>>}

InitItem ==
  /\ guides = [id \in StoredGuideIds |-> CHOOSE g \in StoredGuides : g.id = id]
  /\ es = NoState
  /\ run = IdleRun
  /\ uuid = FirstUuid
  /\ last = NoCall
  /\ heap \in {<<item>> : item \in WorkItems}
  /\ pair = <<>>

\* the newest item object
Newest == Len(heap)

\* the number of calls made so far
Calls == IF last.op = "mutate" THEN last.calls ELSE 0

\* the effect of the mutator name that returned r
Mutated(name, args, r) ==
  /\ last.op \in {"none", "mutate"}
  /\ Calls < MaxCalls
  /\ heap' = r.heap
  /\ last' = [op |-> "mutate", name |-> name, args |-> args, ref |-> Newest,
              before |-> heap, out |-> r.ref, calls |-> Calls + 1]

AddProperty ==
  /\ \E name \in PropertyNames :
       Mutated("addProperty", <<name>>,
               produce(heap, Newest, addProperty(heap[Newest], name, Num(1))))
  /\ uuid' = uuid + 1
  /\ UNCHANGED <<guides, es, run, pair>>

UpdateProperty ==
  /\ \E name \in PropertyNames :
       Mutated("updateProperty", <<name>>,
               produce(heap, Newest, updateProperty(heap[Newest], name, Num(1))))
  /\ UNCHANGED <<guides, es, run, uuid, pair>>

RemoveProperty ==
  /\ \E name \in PropertyNames :
       Mutated("removeProperty", <<name>>,
               produce(heap, Newest, removeProperty(heap[Newest], name)))
  /\ UNCHANGED <<guides, es, run, uuid, pair>>

AddModifier ==
  /\ \E type \in {"prefix", "suffix"} :
       Mutated("addModifier", <<type>>,
               produce(heap, Newest,
                       addModifier(heap[Newest], createModifier(uuid, "Added", 1, type))))
  /\ uuid' = uuid + 1
  /\ UNCHANGED <<guides, es, run, pair>>

RemoveModifier ==
  /\ \E modifierId \in ModifierIds :
       Mutated("removeModifier", <<modifierId>>,
               produce(heap, Newest, removeModifier(heap[Newest], modifierId)))
  /\ UNCHANGED <<guides, es, run, uuid, pair>>

UpdateModifier ==
  /\ \E modifierId \in ModifierIds, updates \in ModifierUpdates :
       Mutated("updateModifier", <<modifierId, updates>>,
               produce(heap, Newest, updateModifier(heap[Newest], modifierId, updates)))
  /\ UNCHANGED <<guides, es, run, uuid, pair>>

AddSocket ==
  /\ Mutated("addSocket", <<>>,
             produce(heap, Newest, addSocket(heap[Newest], createSocket(uuid, "red"))))
  /\ uuid' = uuid + 1
  /\ UNCHANGED <<guides, es, run, pair>>

RemoveSocket ==
  /\ \E k \in DOMAIN heap[Newest].sockets :
       Mutated("removeSocket", <<heap[Newest].sockets[k].id>>,
               produce(heap, Newest,
                       removeSocket(heap[Newest], heap[Newest].sockets[k].id)))
  /\ UNCHANGED <<guides, es, run, uuid, pair>>

LinkSockets ==
  /\ \E socketIds \in SocketIdLists :
       Mutated("linkSockets", <<socketIds>>,
               produce(heap, Newest, linkSockets(heap[Newest], socketIds)))
  /\ UNCHANGED <<guides, es, run, uuid, pair>>

CorruptItem ==
  /\ Mutated("corruptItem", <<>>, produce(heap, Newest, corruptItem(heap[Newest])))
  /\ UNCHANGED <<guides, es, run, uuid, pair>>

\* the object a handler returns: handleExaltedOrb returns what addModifier
\* returns, the others build theirs from an object literal
handled(h, ref, name, r) ==
  IF name = "exalted_orb" THEN produce(h, ref, r.item) ELSE spread(h, r.item)

\* the effect of the handler name that returned r
Handled(name, r) ==
  /\ Mutated(name, <<>>, handled(heap, Newest, name, r))
  /\ uuid' = r.uuid

\* the draws a handler is called under here: every draw it reads the least or
\* the greatest one
HandlerOracles(name, item) ==
  { oracle \in OraclesFor([op |-> "callHandler", name |-> name, item |-> item]) :
      \A k \in DOMAIN oracle : oracle[k] \in {0, RandDen - 1} }

\* this.customHandlers[name](item, action, context)
CallHandler ==
  /\ \E name \in customHandlers :
       /\ name = "divine_orb" => Len(heap[Newest].modifiers) <= MaxDraws
       /\ \E oracle \in HandlerOracles(name, heap[Newest]) :
            Handled(name, callHandler(name, heap[Newest], uuid, oracle, 0))
  /\ UNCHANGED <<guides, es, run, pair>>

\* the items validateItem is called with
CheckModifiers(prefixes, suffixes) ==
  [k \in 1 .. prefixes |-> createModifier(20 + k, "Prefix " \o ToString(k), 1, "prefix")]
  \o [k \in 1 .. suffixes |-> createModifier(30 + k, "Suffix " \o ToString(k), 1, "suffix")]

MaxChecked == 4

CheckModifierLists ==
  {CheckModifiers(prefixes, suffixes) : prefixes \in 0 .. MaxChecked, suffixes \in 0 .. MaxChecked}
  \cup {CheckModifiers(7, 0), CheckModifiers(0, 7),
        <<Life, Life>>, <<Life, Extra(6), Life, Extra(7), Life>>,
        <<createModifier(5, "Life", 1, "implicit"), createModifier(6, "Mana", 1, "implicit")>>}

CheckSockets ==
  { <<>>,
    <<Socket(7, <<8>>), Socket(8, <<7>>)>>,
    <<Socket(7, <<8>>), Socket(8, <<>>)>>,
    <<Socket(7, <<8, 9>>), Socket(8, <<>>)>>,
    <<Socket(7, <<8, 9>>), Socket(8, <<7>>)>>,
    <<Socket(7, <<7>>)>>,
    <<Socket(7, <<9>>), Socket(8, <<9>>)>>,
    <<Socket(7, <<8, 9>>), Socket(8, <<7, 9>>), Socket(9, <<7, 8>>)>> }

CheckItems ==
  { WorkItem(rarity, FALSE, modifiers, sockets) :
      rarity \in {"normal", "magic", "rare", "unique"},
      modifiers \in CheckModifierLists, sockets \in CheckSockets }

\* validateItem(item)
ValidateItem ==
  /\ last = NoCall
  /\ \E item \in CheckItems \cup {heap[Newest]} :
       last' = [op |-> "validateItem", item |-> item, result |-> validateItem(item)]
  /\ UNCHANGED <<guides, es, run, uuid, heap, pair>>

NextItem ==
  \/ AddProperty
  \/ UpdateProperty
  \/ RemoveProperty
  \/ AddModifier
  \/ RemoveModifier
  \/ UpdateModifier
  \/ AddSocket
  \/ RemoveSocket
  \/ LinkSockets
  \/ CorruptItem
  \/ CallHandler
  \/ ValidateItem

SpecItem == InitItem /\ [][NextItem]_vars

---------------------------------------------------------------------------
(* The guide store: createGuide, exportGuide and importGuide. A guide of   *)
(* the store carries, besides id and steps, a title, the two timestamps    *)
(* and the optional targetItem. JSON text is kept as the document it       *)
(* denotes: kind "json" for a JSON object with a member steps, "object"    *)
(* for one without, "garbage" for text that is no JSON.                    *)

\* a Date object
DateAt(time) == [t |-> "date", v |-> time]

\* Date.prototype.toISOString
toISOString(time) == "1970-01-01T00:00:0" \o ToString(time) \o ".000Z"

\* what JSON.stringify writes for a member value: a Date as its ISO string,
\* anything else of the model as it is; a member that is undefined is left
\* out, and reads as undefined after parsing
toJSON(x) == IF x.t = "date" THEN Str(toISOString(x.v)) ELSE x

CraftGuide(title, targetItem, steps) ==
  [title |-> title, targetItem |-> targetItem, steps |-> steps]

\* uuidv4() as the id of a guide
GuideId(n) == "guide-" \o ToString(n)

\* this.guides[id] = guide
Put(store, id, guide) ==
  [k \in (DOMAIN store) \cup {id} |-> IF k = id THEN guide ELSE store[k]]

\* createGuide(guide): the guide as stored
createGuide(guide, id, now) ==
  [id |-> GuideId(id), title |-> guide.title, targetItem |-> guide.targetItem,
   steps |-> guide.steps, createdAt |-> DateAt(now), updatedAt |-> DateAt(now)]

\* !member of a member that holds an object: undefined or left out
Missing(member) == member = Undef

StepError(step, index, text) ==
  "Step " \o ToString(index + 1) \o " (" \o step.type \o "): " \o text

ErrorIf(failed, step, index, text) ==
  IF failed THEN <<StepError(step, index, text)>> ELSE <<>>

\* validateStep(step, index), index counting from 0. An actionId that is
\* left out is the empty string and a list that is left out is the empty
\* list: the code reports either in the same way.
validateStep(step, index) ==
  CASE step.type = "linear" ->
         ErrorIf(step.actionId = "", step, index, "Missing action ID")
    [] step.type = "conditional" ->
         ErrorIf(Missing(step.condition), step, index, "Missing condition")
         \o ErrorIf(Missing(step.trueStep), step, index, "Missing true step")
         \o ErrorIf(Missing(step.falseStep), step, index, "Missing false step")
    [] step.type = "branch" ->
         ErrorIf(step.branches = <<>>, step, index,
                 "No branches defined")
    [] step.type = "loop" ->
         ErrorIf(Missing(step.condition), step, index, "Missing loop condition")
         \o ErrorIf(step.steps = <<>>, step, index,
                    "No steps defined in loop")
    [] OTHER -> <<>>

\* guide.steps.forEach((step, index) => errors.push(...validateStep(step, index)))
\* from step k on
RECURSIVE validateStepsUntilError(_, _)
RECURSIVE validateSteps(_, _)

\* a validation that stops at the first step with an error
validateStepsUntilError(steps, k) ==
  IF k > Len(steps) THEN <<>>
  ELSE IF validateStep(steps[k], k - 1) # <<>> THEN validateStep(steps[k], k - 1)
  ELSE validateStepsUntilError(steps, k + 1)

validateSteps(steps, k) ==
  IF k > Len(steps) THEN <<>>
  ELSE validateStep(steps[k], k - 1) \o validateSteps(steps, k + 1)

hasCircularReferences(steps) == FALSE

validateGuide(guide) ==
  ValidationResult(
    validateSteps(guide.steps, 1)
    \o IF hasCircularReferences(guide.steps)
         THEN <<"Guide contains circular references in conditional steps">>
         ELSE <<>>)

\* a stringify that leaves the steps out
stringifyWithoutSteps(guide) ==
  [kind |-> "json",
   value |-> [guide EXCEPT !.createdAt = toJSON(@), !.updatedAt = toJSON(@),
                           !.targetItem = toJSON(@), !.steps = <<>>]]

\* JSON.stringify(guide, null, 2)
stringify(guide) ==
  [kind |-> "json",
   value |-> [guide EXCEPT !.createdAt = toJSON(@), !.updatedAt = toJSON(@),
                           !.targetItem = toJSON(@)]]

\* JSON.parse(text); hasSteps tells whether the value has a member steps
parse(text) ==
  IF text.kind = "garbage"
    THEN [thrown |-> TRUE, msg |-> "Unexpected token", hasSteps |-> FALSE, value |-> Undef]
    ELSE [thrown |-> FALSE, msg |-> "", hasSteps |-> text.kind = "json", value |-> text.value]

exportGuide(store, guideId) ==
  IF guideId \notin DOMAIN store
    THEN [thrown |-> TRUE, msg |-> "Guide not found: " \o guideId, text |-> Undef]
    ELSE [thrown |-> FALSE, msg |-> "", text |-> stringify(store[guideId])]

\* importGuide throws: nothing is stored, no uuid is taken
ImportError(msg, store, id) ==
  [thrown |-> TRUE, msg |-> msg, guide |-> Undef, guides |-> store, uuid |-> id]

\* the guide is stored under its id and returned
importStored(guide, store, id) ==
  [thrown |-> FALSE, msg |-> "", guide |-> guide, guides |-> Put(store, guide.id, guide),
   uuid |-> id + 1]

\* an import that keeps the id the data came with
importKeepingId(validation, guideData, store, id, now) ==
  IF ~validation.isValid
    THEN ImportError("Invalid guide: " \o Join(validation.errors, ", "), store, id)
    ELSE importStored([guideData EXCEPT !.createdAt = DateAt(now),
                                        !.updatedAt = DateAt(now)], store, id)

\* importGuide once validateGuide has returned validation
importValidated(validation, guideData, store, id, now) ==
  IF ~validation.isValid
    THEN ImportError("Invalid guide: " \o Join(validation.errors, ", "), store, id)
    ELSE importStored([guideData EXCEPT !.id = GuideId(id),
                                        !.createdAt = DateAt(now),
                                        !.updatedAt = DateAt(now)], store, id)

\* importGuide once JSON.parse has returned or thrown parsed; data without
\* steps makes validateGuide throw a TypeError
importParsed(parsed, store, id, now) ==
  IF parsed.thrown THEN ImportError(parsed.msg, store, id)
  ELSE IF ~parsed.hasSteps
    THEN ImportError("Cannot read properties of undefined (reading 'forEach')", store, id)
  ELSE importValidated(validateGuide(parsed.value), parsed.value, store, id, now)

importGuide(store, guideJson, id, now) == importParsed(parse(guideJson), store, id, now)

\* { ...base, ...updates }: the members of updates over those of base
Merge(base, updates) ==
  [f \in (DOMAIN base) \cup (DOMAIN updates) |->
     IF f \in DOMAIN updates THEN updates[f] ELSE base[f]]

\* the object without own members that { ...f } gives for a function f
NoMembers == [f \in {} |-> Undef]

\* this.guides[id] is truthy: a stored guide or an inherited function
Found(store, id) == id \in DOMAIN store \/ id \in InheritedMembers

\* { ...this.guides[id] }
Spread(store, id) == IF id \in DOMAIN store THEN store[id] ELSE NoMembers

---------------------------------------------------------------------------
(* Sharing (SharingManager). A share document is a JSON object without a    *)
(* member steps: kind "object", its value holding the members type and      *)
(* guide, the guide member being the JSON document of the guide, or Undef   *)
(* when the member is missing or null.                                      *)

ShareType == "poe2-craft-guide"

\* generateShareId() under the draw d
ShareId(d) == "share-" \o ToString(d)

\* JSON.stringify(shareData, null, 2)
ShareDocument(type, guide, now) ==
  [kind |-> "object",
   value |-> [version |-> "1.0", type |-> type, exportedAt |-> toISOString(now),
              guide |-> guide]]

\* exportGuideToShareFormat(guideId): the guide without its id and with a
\* shareId; for an inherited function, which getGuide returns as well, an
\* object with a shareId alone
exportGuideToShareFormat(store, guideId, now, d) ==
  IF ~Found(store, guideId)
    THEN [thrown |-> TRUE, msg |-> "Guide not found: " \o guideId, text |-> Undef]
  ELSE IF guideId \notin DOMAIN store
    THEN [thrown |-> FALSE, msg |-> "",
          text |-> ShareDocument(ShareType,
                     [kind |-> "object", value |-> [shareId |-> Str(ShareId(d))]], now)]
  ELSE [thrown |-> FALSE, msg |-> "",
        text |-> ShareDocument(ShareType,
                   [kind |-> "json",
                    value |-> Merge(stringify(store[guideId]).value,
                                    [id |-> Undef, shareId |-> Str(ShareId(d))])],
                   now)]

\* data.type === 'poe2-craft-guide' && data.guide
IsShareFormat(data) ==
  /\ "type" \in DOMAIN data
  /\ data.type = ShareType
  /\ "guide" \in DOMAIN data
  /\ data.guide # Undef

\* JSON.stringify(data.guide) for the guide member of parsed data
stringifyMember(document) ==
  IF document.kind = "json" THEN stringify(document.value) ELSE document

\* catch (error): the error of importGuide or JSON.parse, wrapped
importCaught(r) ==
  IF r.thrown THEN [r EXCEPT !.msg = "Invalid guide format: " \o @] ELSE r

\* an import that takes every input for a raw guide
importRaw(parsed, jsonData, store, id, now) ==
  IF parsed.thrown THEN importCaught(ImportError(parsed.msg, store, id))
  ELSE importCaught(importGuide(store, jsonData, id, now))

\* importGuideFromJson once JSON.parse has returned or thrown parsed
importUnwrapped(parsed, jsonData, store, id, now) ==
  IF parsed.thrown THEN importCaught(ImportError(parsed.msg, store, id))
  ELSE IF IsShareFormat(parsed.value)
    THEN importCaught(importGuide(store, stringifyMember(parsed.value.guide), id, now))
  ELSE importCaught(importGuide(store, jsonData, id, now))

importGuideFromJson(store, jsonData, id, now) ==
  importUnwrapped(parse(jsonData), jsonData, store, id, now)

\* number of guides the store holds
MaxGuides == 3

\* the values new Date() takes
Times == {1, 2}

\* the guides the host creates: complete ones, one whose targetItem is
\* undefined, one still being edited (steps not filled in), one without steps
NewGuides ==
  { CraftGuide("Reroll", Obj,
               <<LinearStep("o1", "alchemy_orb"),
                 LoopStep("a1", FewModifiers, <<LinearStep("a2", "augment")>>, Undef)>>),
    CraftGuide("Choice", Undef,
               <<ConditionalStep("d1", Cond("hasModifier", <<>>, Str("Extra")),
                                 LinearStep("d2", "vaal"), LinearStep("d3", "augment")),
                 [type |-> "jump", id |-> "j1"]>>),
    CraftGuide("Draft", Undef,
               <<LinearStep("n1", ""), BranchStep("n2", <<>>)>>),
    CraftGuide("Empty", Obj, <<>>) }

\* the texts importGuide is given besides exported ones: no JSON, JSON that is
\* no guide, a guide that carries the id of a stored guide, and a guide with
\* every kind of validation failure
ForeignGuide(id, steps) ==
  [id |-> id, title |-> "Foreign", targetItem |-> Undef, steps |-> steps,
   createdAt |-> Str(toISOString(0)), updatedAt |-> Str(toISOString(0))]

ImportTexts(store) ==
  { [kind |-> "json", value |-> ForeignGuide(id, <<LinearStep("o1", "chaos_orb")>>)] :
      id \in DOMAIN store }
  \cup
  { [kind |-> "garbage"],
    [kind |-> "object", value |-> Obj],
    [kind |-> "json",
     value |-> ForeignGuide("elsewhere",
                 <<LinearStep("m1", "polish"),
                   LinearStep("m2", ""),
                   ConditionalStep("m3", Undef, Undef, Undef),
                   BranchStep("m4", <<>>),
                   LoopStep("m5", Undef, <<>>, Undef),
                   LoopStep("m6", LowQuality, <<LinearStep("m7", "")>>, Num(2))>>)] }

InitStore ==
  /\ guides = [id \in {} |-> Undef]
  /\ es = NoState
  /\ run = IdleRun
  /\ uuid = FirstUuid
  /\ last = NoCall
  /\ heap = <<>>
  /\ pair = <<>>

\* createGuide(guide)
CreateGuide ==
  /\ Cardinality(DOMAIN guides) < MaxGuides
  /\ \E guide \in NewGuides, now \in Times :
       /\ guides' = Put(guides, GuideId(uuid), createGuide(guide, uuid, now))
       /\ last' = [op |-> "createGuide", guide |-> guide, before |-> guides,
                   result |-> createGuide(guide, uuid, now)]
  /\ uuid' = uuid + 1
  /\ UNCHANGED <<es, run, heap, pair>>

\* exportGuide(guideId)
ExportGuide ==
  /\ \E guideId \in (DOMAIN guides) \cup {MissingGuideId} :
       last' = [op |-> "exportGuide", guideId |-> guideId,
                result |-> exportGuide(guides, guideId)]
  /\ UNCHANGED <<guides, es, run, uuid, heap, pair>>

\* the effect of an importGuide that returned or threw r
Imported(r, guideJson) ==
  /\ guides' = r.guides
  /\ uuid' = r.uuid
  /\ last' = [op |-> "importGuide", guideJson |-> guideJson, before |-> guides,
              id |-> uuid, result |-> [thrown |-> r.thrown, msg |-> r.msg,
                                       guide |-> r.guide]]

\* importGuide(guideJson), on a foreign text or on the text of an export
ImportGuide ==
  /\ Cardinality(DOMAIN guides) < MaxGuides
  /\ \E guideJson \in ImportTexts(guides) \cup {stringify(guides[id]) : id \in DOMAIN guides},
        now \in Times :
       Imported(importGuide(guides, guideJson, uuid, now), guideJson)
  /\ UNCHANGED <<es, run, heap, pair>>

\* the documents importGuideFromJson is given besides those importGuide is
\* given: the share documents of the stored guides, share documents around an
\* invalid guide, around an object that is no guide and around nothing, and
\* a document with another type around a valid guide
ShareTexts(store) ==
  { exportGuideToShareFormat(store, id, 0, 1).text : id \in DOMAIN store }
  \cup
  { ShareDocument(type, guide, 0) :
      type \in {ShareType, "poe2-item"},
      guide \in { Undef,
                  [kind |-> "object", value |-> Obj],
                  [kind |-> "json",
                   value |-> ForeignGuide("elsewhere", <<LinearStep("m1", "polish")>>)],
                  [kind |-> "json",
                   value |-> ForeignGuide("elsewhere", <<LinearStep("m2", "")>>)] } }

\* importGuideFromJson(jsonData)
ImportGuideFromJson ==
  /\ Cardinality(DOMAIN guides) < MaxGuides
  /\ \E jsonData \in ShareTexts(guides) \cup ImportTexts(guides)
                     \cup {stringify(guides[id]) : id \in DOMAIN guides},
        now \in Times :
       \E r \in {importGuideFromJson(guides, jsonData, uuid, now)} :
         /\ guides' = r.guides
         /\ uuid' = r.uuid
         /\ last' = [op |-> "importGuideFromJson", jsonData |-> jsonData,
                     before |-> guides, id |-> uuid, now |-> now,
                     result |-> [thrown |-> r.thrown, msg |-> r.msg, guide |-> r.guide]]
  /\ UNCHANGED <<es, run, heap, pair>>

\* the steps validateGuide is called with: every variant, complete and with
\* each of its required members missing, and a step of no known type
MaxValidated == 2

ValidatedSteps ==
  { LinearStep("v", actionId) : actionId \in {"", "augment"} }
  \cup { ConditionalStep("v", condition, trueStep, falseStep) :
           condition \in {Undef, FewModifiers},
           trueStep \in {Undef, LinearStep("t", "augment")},
           falseStep \in {Undef, LinearStep("f", "")} }
  \cup { BranchStep("v", branches) :
           branches \in {<<>>, <<Branch(FewModifiers, <<>>, "few")>>} }
  \cup { LoopStep("v", condition, steps, Undef) :
           condition \in {Undef, FewModifiers},
           steps \in {<<>>, <<LinearStep("b", "")>>} }
  \cup { [type |-> "jump", id |-> "v"] }

ValidatedGuides ==
  { CraftGuide("Checked", Undef, steps) :
      steps \in UNION {[1 .. n -> ValidatedSteps] : n \in 0 .. MaxValidated} }

\* validateGuide(guide)
ValidateGuide ==
  /\ last = NoCall
  /\ \E guide \in ValidatedGuides :
       last' = [op |-> "validateGuide", guide |-> guide, result |-> validateGuide(guide)]
  /\ UNCHANGED <<guides, es, run, uuid, heap, pair>>

NextStore ==
  \/ CreateGuide
  \/ ExportGuide
  \/ ImportGuide
  \/ ImportGuideFromJson
  \/ ValidateGuide

SpecStore == InitStore /\ [][NextStore]_vars

---------------------------------------------------------------------------
(* Editing the stored guides (GuideManager): updateGuide, deleteGuide and   *)
(* the step operations. this.guides is an object literal read as            *)
(* this.guides[id]: Found tells what such a read finds.                     *)

\* what an edit returns: the store after it, the value returned, or the
\* TypeError thrown
Edit(store, result) == [guides |-> store, thrown |-> FALSE, msg |-> "", result |-> result]
EditError(store, member) ==
  [guides |-> store, thrown |-> TRUE, result |-> Undef,
   msg |-> "Cannot read properties of undefined (reading '" \o member \o "')"]

\* an updateGuide that lets the updates replace the id
updateGuideId(store, id, updates, now) ==
  IF ~Found(store, id) THEN Edit(store, Undef)
  ELSE Edit(Put(store, id, Merge(Merge(Spread(store, id), [id |-> id]),
                                 Merge(updates, [updatedAt |-> DateAt(now)]))),
            Obj)

\* updateGuide(id, updates); result Undef stands for null, Obj for the guide
\* stored under id afterwards
updateGuide(store, id, updates, now) ==
  IF ~Found(store, id) THEN Edit(store, Undef)
  ELSE Edit(Put(store, id, Merge(Merge(Spread(store, id), updates),
                                 [id |-> id, updatedAt |-> DateAt(now)])),
            Obj)

\* delete this.guides[id]
Remove(store, id) == [k \in (DOMAIN store) \ {id} |-> store[k]]

deleteGuide(store, id) ==
  IF Found(store, id) THEN Edit(Remove(store, id), Bool(TRUE))
  ELSE Edit(store, Bool(FALSE))

\* the guide has an own member steps
HasSteps(store, id) == id \in DOMAIN store /\ "steps" \in DOMAIN store[id]

\* steps.splice(position, 0, step), position counting from 0
InsertAt(steps, position, step) ==
  SubSeq(steps, 1, position) \o <<step>> \o SubSeq(steps, position + 1, Len(steps))

\* steps.splice(index, 1), index counting from 1
RemoveAt(steps, index) ==
  SubSeq(steps, 1, index - 1) \o SubSeq(steps, index + 1, Len(steps))

\* steps.findIndex(step => step.id === stepId) + 1: 0 when there is none
FindStep(steps, stepId) ==
  IF \E k \in DOMAIN steps : steps[k].id = stepId
    THEN CHOOSE k \in DOMAIN steps :
           steps[k].id = stepId /\ \A j \in 1 .. (k - 1) : steps[j].id # stepId
    ELSE 0

\* the stored guide with new steps and a new updatedAt
WithSteps(store, id, steps, now) ==
  Edit([store EXCEPT ![id] = Merge(@, [steps |-> steps, updatedAt |-> DateAt(now)])],
       Bool(TRUE))

\* addStep(guideId, step, position); position Undef: none given
addStep(store, guideId, step, position, now) ==
  IF ~Found(store, guideId) THEN Edit(store, Bool(FALSE))
  ELSE IF ~HasSteps(store, guideId)
    THEN EditError(store, IF position.t = "num" /\ position.v >= 0 THEN "length" ELSE "push")
  ELSE IF position.t = "num" /\ position.v >= 0 /\ position.v <= Len(store[guideId].steps)
    THEN WithSteps(store, guideId, InsertAt(store[guideId].steps, position.v, step), now)
  ELSE WithSteps(store, guideId, Append(store[guideId].steps, step), now)

\* removeStep once findIndex has given index
removeFound(store, guideId, index, now) ==
  IF index = 0 THEN Edit(store, Bool(FALSE))
  ELSE WithSteps(store, guideId, RemoveAt(store[guideId].steps, index), now)

removeStep(store, guideId, stepId, now) ==
  IF ~Found(store, guideId) THEN Edit(store, Bool(FALSE))
  ELSE IF ~HasSteps(store, guideId) THEN EditError(store, "findIndex")
  ELSE removeFound(store, guideId, FindStep(store[guideId].steps, stepId), now)

\* an updateStep that lets the patch replace the id and the type
patchFound(store, guideId, index, updates, now) ==
  IF index = 0 THEN Edit(store, Bool(FALSE))
  ELSE WithSteps(store, guideId,
                 [store[guideId].steps EXCEPT ![index] = Merge(@, updates)], now)

\* updateStep once findIndex has given index
updateFound(store, guideId, index, updates, now) ==
  IF index = 0 THEN Edit(store, Bool(FALSE))
  ELSE WithSteps(store, guideId,
                 [store[guideId].steps EXCEPT ![index] =
                    Merge(Merge(@, updates), [id |-> @.id, type |-> @.type])],
                 now)

updateStep(store, guideId, stepId, updates, now) ==
  IF ~Found(store, guideId) THEN Edit(store, Bool(FALSE))
  ELSE IF ~HasSteps(store, guideId) THEN EditError(store, "findIndex")
  ELSE updateFound(store, guideId, FindStep(store[guideId].steps, stepId), updates, now)

\* a move that never puts the step in front of the first of the others
MoveBehindFirst(steps, index, newPosition) ==
  InsertAt(RemoveAt(steps, index), Max(Min(1, Len(steps) - 1), Min(newPosition, Len(steps) - 1)),
           steps[index])

\* the steps with the step at index moved to newPosition, clamped to the
\* list that remains without it
MoveTo(steps, index, newPosition) ==
  InsertAt(RemoveAt(steps, index), Max(0, Min(newPosition, Len(steps) - 1)), steps[index])

\* moveStep once findIndex has given index
moveFound(store, guideId, index, newPosition, now) ==
  IF index = 0 THEN Edit(store, Bool(FALSE))
  ELSE WithSteps(store, guideId, MoveTo(store[guideId].steps, index, newPosition), now)

moveStep(store, guideId, stepId, newPosition, now) ==
  IF ~Found(store, guideId) THEN Edit(store, Bool(FALSE))
  ELSE IF ~HasSteps(store, guideId) THEN EditError(store, "findIndex")
  ELSE moveFound(store, guideId, FindStep(store[guideId].steps, stepId), newPosition, now)

\* the number of operations in a run
MaxEdits == 2

\* the guides in the store when the editing starts
EditedGuides ==
  << CraftGuide("Reroll", Obj,
                <<LinearStep("o1", "alchemy_orb"),
                  LoopStep("a1", FewModifiers, <<LinearStep("a2", "augment")>>, Undef),
                  LinearStep("o1", "chaos_orb")>>),
     CraftGuide("Empty", Obj, <<>>) >>

InitEdit ==
  /\ guides = [id \in {GuideId(FirstUuid + k - 1) : k \in DOMAIN EditedGuides} |->
                 createGuide(EditedGuides[CHOOSE k \in DOMAIN EditedGuides :
                                            GuideId(FirstUuid + k - 1) = id],
                             FirstUuid + (CHOOSE k \in DOMAIN EditedGuides :
                                            GuideId(FirstUuid + k - 1) = id) - 1, 0)]
  /\ es = NoState
  /\ run = IdleRun
  /\ uuid = FirstUuid + Len(EditedGuides)
  /\ last = NoCall
  /\ heap = <<>>
  /\ pair = <<>>

\* the operations made so far, and the value of new Date() in the next one
Edits == IF last.op = "edit" THEN last.edits ELSE 0
Now == Edits + 1

\* the ids the operations are called with: those of the stored guides, an id
\* that was never stored, and one that names an inherited member
EditIds == (DOMAIN guides) \cup {MissingGuideId, "toString"}

\* the effect of the operation name that returned or threw r
Edited(name, args, r) ==
  /\ last.op \in {"none", "edit"}
  /\ Edits < MaxEdits
  /\ guides' = r.guides
  /\ last' = [op |-> "edit", name |-> name, args |-> args, before |-> guides,
              thrown |-> r.thrown, result |-> r.result, edits |-> Edits + 1]

\* the return of importGuide as that of an edit
AsEdit(r) == [guides |-> r.guides, thrown |-> r.thrown, msg |-> r.msg, result |-> Obj]

\* createGuide(guide)
CreateEdited ==
  /\ \E guide \in {CraftGuide("Added", Undef, <<LinearStep("n1", "")>>)} :
       Edited("createGuide", <<guide>>,
              Edit(Put(guides, GuideId(uuid), createGuide(guide, uuid, Now)), Obj))
  /\ uuid' = uuid + 1
  /\ UNCHANGED <<es, run, heap, pair>>

\* importGuide(guideJson) on a guide that carries the id of a stored one
ImportEdited ==
  /\ \E id \in DOMAIN guides :
       \E guideJson \in {[kind |-> "json",
                          value |-> ForeignGuide(id, <<LinearStep("o1", "chaos_orb")>>)]} :
         Edited("importGuide", <<guideJson>>,
                AsEdit(importGuide(guides, guideJson, uuid, Now)))
  /\ uuid' = uuid + 1
  /\ UNCHANGED <<es, run, heap, pair>>

GuideUpdates ==
  { [title |-> "Renamed"],
    [id |-> MissingGuideId, title |-> "Moved"],
    [id |-> GuideId(FirstUuid), steps |-> <<>>, title |-> "Taken"] }

\* updateGuide(id, updates)
UpdateGuide ==
  /\ \E id \in EditIds, updates \in GuideUpdates :
       Edited("updateGuide", <<id, updates>>, updateGuide(guides, id, updates, Now))
  /\ UNCHANGED <<es, run, uuid, heap, pair>>

\* deleteGuide(id)
DeleteGuide ==
  /\ \E id \in EditIds : Edited("deleteGuide", <<id>>, deleteGuide(guides, id))
  /\ UNCHANGED <<es, run, uuid, heap, pair>>

StepIds == {"o1", "a1", "zz"}

\* addStep(guideId, step, position)
AddStep ==
  /\ \E guideId \in EditIds, position \in {Undef, Num(0), Num(1), Num(9)} :
       \E step \in {LinearStep("n2", "vaal")} :
         Edited("addStep", <<guideId, step, position>>,
                addStep(guides, guideId, step, position, Now))
  /\ UNCHANGED <<es, run, uuid, heap, pair>>

\* removeStep(guideId, stepId)
RemoveStep ==
  /\ \E guideId \in EditIds, stepId \in StepIds :
       Edited("removeStep", <<guideId, stepId>>, removeStep(guides, guideId, stepId, Now))
  /\ UNCHANGED <<es, run, uuid, heap, pair>>

StepUpdates ==
  { [actionId |-> "vaal"],
    [id |-> "zz", type |-> "loop", actionId |-> "augment"] }

\* updateStep(guideId, stepId, updates)
UpdateStep ==
  /\ \E guideId \in EditIds, stepId \in StepIds, updates \in StepUpdates :
       Edited("updateStep", <<guideId, stepId, updates>>,
              updateStep(guides, guideId, stepId, updates, Now))
  /\ UNCHANGED <<es, run, uuid, heap, pair>>

\* moveStep(guideId, stepId, newPosition)
MoveStep ==
  /\ \E guideId \in EditIds, stepId \in StepIds, newPosition \in {-1, 1, 9} :
       Edited("moveStep", <<guideId, stepId, newPosition>>,
              moveStep(guides, guideId, stepId, newPosition, Now))
  /\ UNCHANGED <<es, run, uuid, heap, pair>>

NextEdit ==
  \/ CreateEdited
  \/ ImportEdited
  \/ UpdateGuide
  \/ DeleteGuide
  \/ AddStep
  \/ RemoveStep
  \/ UpdateStep
  \/ MoveStep

SpecEdit == InitEdit /\ [][NextEdit]_vars

---------------------------------------------------------------------------
(* Two execution states of one guide, stepped by the host in any order.    *)
(* pair holds, for each of them, the execution state, the item it was      *)
(* created from and the draws its calls of executeNextStep were made       *)
(* under.                                                                  *)

\* number of executeNextStep calls on one execution state
MaxPairCalls == 2

PairGuideIds == {"loop2", "branchy", "choice"}
PairOptions == Options(Undef, Undef)

\* the items the two states start from: a normal item and a rare one
PairItems == {item \in StartingItems : ~item.isCorrupted /\ item.rarity # "magic"}

Owner(state, startingItem) ==
  [state |-> state, startingItem |-> startingItem, oracles |-> <<>>]

\* createExecutionState(guideId, startingItem), for the first state on any
\* of the guides and for the second on the guide of the first
CreatePairState ==
  /\ Len(pair) < 2
  /\ \E guideId \in PairGuideIds, startingItem \in PairItems :
       /\ Len(pair) = 1 => guideId = pair[1].state.guideId
       /\ pair' = Append(pair, Owner(createExecutionState(guideId, startingItem, uuid),
                                     startingItem))
       /\ last' = [op |-> "createPairState", before |-> pair]
  /\ uuid' = uuid + 1
  /\ UNCHANGED <<guides, es, run, heap>>

\* an executeNextStep whose history entries reach the other state as well
PairSteppedSharingHistory(r, who, oracle) ==
  /\ pair' = [k \in DOMAIN pair |->
                IF k = who
                  THEN [state |-> r.es, startingItem |-> pair[k].startingItem,
                        oracles |-> Append(pair[k].oracles, oracle)]
                  ELSE [pair[k] EXCEPT !.state.stepHistory = r.es.stepHistory]]
  /\ uuid' = r.uuid
  /\ last' = [op |-> "pairStep", who |-> who, before |-> pair, result |-> r.res]

\* the effect of executeNextStep on the state who, which returned or threw r
PairStepped(r, who, oracle) ==
  /\ pair' = [pair EXCEPT ![who] =
                [state |-> r.es, startingItem |-> pair[who].startingItem,
                 oracles |-> Append(pair[who].oracles, oracle)]]
  /\ uuid' = r.uuid
  /\ last' = [op |-> "pairStep", who |-> who, before |-> pair, result |-> r.res]

\* executeNextStep(executionState) on either state
ExecuteNextStepOfPair ==
  /\ \E who \in DOMAIN pair :
       /\ Len(pair[who].oracles) < MaxPairCalls
       /\ \E oracle \in OraclesFor([op |-> "executeNextStep", state |-> pair[who].state,
                                    options |-> PairOptions]) :
            PairStepped(executeNextStep(pair[who].state, PairOptions, oracle, uuid),
                        who, oracle)
  /\ UNCHANGED <<guides, es, run, heap>>

NextPair ==
  \/ CreatePairState
  \/ ExecuteNextStepOfPair

SpecPair == Init /\ [][NextPair]_vars

---------------------------------------------------------------------------
(* Properties of the guide manager, checked under Spec *)

\* the cursor of an execution state is at or past the end of its guide
AtEnd(state) == state.currentStepIndex >= Len(guides[state.guideId].steps)

\* C1: executeNextStep changes the execution state only as follows. With the
\* cursor at or past the end it returns the success "Guide completed" and
\* leaves cursor, currentItem and stepHistory as they were; when the executed
\* step does not succeed (or the guide is not stored), cursor and currentItem
\* are as before; when it succeeds, currentItem is the item of the result and
\* the cursor is nextStepIndex if the result carries one, is held if the
\* result has shouldLoop = true, and is one more than before otherwise.
C1_ExecuteNextStepEffect ==
  last.op = "executeNextStep" =>
    /\ es.guideId = last.before.guideId
    /\ IF last.before.guideId \notin DOMAIN guides
         THEN es = last.before /\ ~last.result.success
       ELSE IF AtEnd(last.before)
         THEN /\ es = last.before
              /\ last.result = StepResult(TRUE, last.before.currentItem, "Guide completed")
       ELSE IF ~last.result.success
         THEN /\ es.currentStepIndex = last.before.currentStepIndex
              /\ es.currentItem = last.before.currentItem
       ELSE /\ es.currentItem = last.result.item
            /\ es.currentStepIndex =
                 IF last.result.nextStepIndex # Undef THEN last.result.nextStepIndex.v
                 ELSE IF last.result.shouldLoop = Bool(TRUE)
                   THEN last.before.currentStepIndex
                 ELSE last.before.currentStepIndex + 1

\* a loop step succeeded with shouldLoop = true: the item changed and the
\* cursor was held
C1_Witness ==
  /\ last.op = "executeNextStep"
  /\ last.result.success
  /\ last.result.shouldLoop = Bool(TRUE)
  /\ es.currentItem = last.result.item
  /\ es.currentItem # last.before.currentItem
  /\ es.currentStepIndex = last.before.currentStepIndex

\* C2: executeGuide starts from cursor 0 on a clone of the starting item; every
\* recorded result but the last is a success, and a failing last result comes
\* with success = false; the returned success is true exactly when the cursor
\* is at the end of the steps; a guide without steps gives success = true and
\* no results.
C2_ExecuteGuideResult ==
  /\ last.op = "executeGuide" /\ run.pc = "loop" =>
       /\ es.currentStepIndex = 0
       /\ es.stepHistory = <<>>
       /\ run.results = <<>>
       /\ Content(es.currentItem) = Content(run.startingItem)
       /\ es.currentItem.id # run.startingItem.id
  /\ run.pc = "loop" => \A k \in DOMAIN run.results : run.results[k].success
  /\ run.pc = "done" =>
       /\ \A k \in 1 .. Len(run.results) - 1 : run.results[k].success
       /\ (run.results # <<>> /\ ~run.results[Len(run.results)].success) => ~run.success
       /\ run.success <=> AtEnd(es)
       /\ guides[es.guideId].steps = <<>> => run.success /\ run.results = <<>>

\* executeGuide has returned success = false after a step that succeeded and
\* a step that failed
C2_Witness ==
  /\ run.pc = "done"
  /\ ~run.success
  /\ Len(run.results) = 2
  /\ run.results[1].success
  /\ ~run.results[2].success
  /\ ~AtEnd(es)

\* the step budget executeGuide is called with: options.maxSteps when it is
\* given, 100 otherwise
DeclaredStepBudget(options) ==
  IF options.maxSteps = Undef THEN DefaultMaxSteps ELSE options.maxSteps.v

\* C3: when executeGuide returns and no step failed and the steps are not
\* exhausted, it has called executeNextStep exactly as many times as the
\* declared step budget (100 when none is declared): it returns success =
\* false with exactly that many results.
C3_HaltsAtDeclaredBudget ==
  ( /\ run.pc = "done"
    /\ ~AtEnd(es)
    /\ \A k \in DOMAIN run.results : run.results[k].success ) =>
  /\ ~run.success
  /\ Len(run.results) = DeclaredStepBudget(run.options)

\* C3 for the budgets the code honours: a declared budget other than 0
C3_HaltsAtNonZeroBudget ==
  ( /\ run.pc = "done"
    /\ ~AtEnd(es)
    /\ run.options.maxSteps # Num(0)
    /\ \A k \in DOMAIN run.results : run.results[k].success ) =>
  /\ ~run.success
  /\ Len(run.results) = DeclaredStepBudget(run.options)

---------------------------------------------------------------------------
(* Properties of the step executor, checked under SpecCall *)

\* the last call was executeStep on a step of the given type
SteppedOn(type) == last.op = "executeStep" /\ last.step.type = type

\* the entries the last executeStep call added to the history
NewEntries == SubSeq(last.after, Len(last.history) + 1, Len(last.after))

\* the existing entries are still there, unaltered, in front of the new ones
HistoryKept ==
  /\ Len(last.after) >= Len(last.history)
  /\ SubSeq(last.after, 1, Len(last.history)) = last.history

\* the cap a loop step declares: its maxIterations, or without one
\* options.maxLoopIterations, or without that 10
DeclaredLoopCap(step, options) ==
  IF step.maxIterations # Undef THEN step.maxIterations.v
  ELSE IF options.maxLoopIterations # Undef THEN options.maxLoopIterations.v
  ELSE DefaultMaxLoopIterations

\* The loop as C4 describes it, from the running item after n iterations:
\* the number of iterations k, the running item after them, whether the
\* condition is still true on it, and fails = TRUE when the condition raises
\* or a sub-step does not succeed on the way.
RECURSIVE ClaimedLoop(_, _, _, _, _, _)
ClaimedLoop(step, item, st, env, n, cap) ==
  LET c == evaluate(step.condition, item)
      out == runSteps(step.steps, item, st, env, "")
  IN IF c.thrown THEN [fails |-> TRUE]
     ELSE IF n >= cap \/ ~c.val
       THEN [fails |-> FALSE, k |-> n, item |-> item, still |-> c.val, st |-> st]
     ELSE IF ~out.ok THEN [fails |-> TRUE]
     ELSE ClaimedLoop(step, out.res.item, out.st, env, n + 1, cap)

\* the last executeStep call, on a loop step, did what ClaimedLoop says for
\* the cap: k iterations, success with the running item, shouldLoop true
\* exactly when the condition is still true at the cap
LoopRanTo(cap) ==
  LET e == ClaimedLoop(last.step, last.item, Thread(last.history, last.id, 0),
                       [oracle |-> last.oracle, options |-> last.options], 0, cap)
  IN ~e.fails =>
       /\ last.result.success
       /\ last.result.item = e.item
       /\ last.after = e.st.hist
       /\ last.result.shouldLoop = Bool(e.still /\ e.k >= cap)
       /\ last.result.message =
            "Loop completed after " \o ToString(e.k) \o " iterations"
            \o (IF e.still THEN " (max iterations reached)" ELSE "")

\* C4: a loop step whose sub-steps all succeed executes its body k times, k
\* the smallest number of iterations after which the condition is false on
\* the running item, or the declared maxIterations if the condition is still
\* true then; it returns success with the running item, and shouldLoop is
\* true exactly when the condition is still true and the cap was reached.
C4_LoopRunsToDeclaredCap ==
  SteppedOn("loop") => LoopRanTo(DeclaredLoopCap(last.step, last.options))

\* C4 with the cap the code computes, which passes over a declared 0
C4_LoopRunsToComputedCap ==
  SteppedOn("loop") => LoopRanTo(LoopCap(last.step, last.options))

\* the value of the condition of branch k of the last executeStep call
BranchValue(k) == evaluate(last.step.branches[k].condition, last.item)

\* the branches whose condition is true on the input item
Matching == {k \in DOMAIN last.step.branches : BranchValue(k).val}

FirstMatching == CHOOSE k \in Matching : \A j \in Matching : k <= j

\* the ids of the steps of a branch, at any depth
BranchStepIds(branch) == {s.id : s \in UNION {StepsWithin(t) : t \in Range(branch.steps)}}

\* the new entries thread one running item, from the input item of the call
\* to the item of a success
Threaded ==
  /\ NewEntries # <<>> => Content(NewEntries[1].itemBefore) = Content(last.item)
  /\ \A k \in 1 .. Len(NewEntries) - 1 :
       Content(NewEntries[k + 1].itemBefore) = Content(NewEntries[k].itemAfter)
  /\ last.result.success =>
       IF NewEntries = <<>> THEN last.result.item = last.item
       ELSE Content(last.result.item) = Content(NewEntries[Len(NewEntries)].itemAfter)

\* C5: a branch step whose conditions all evaluate executes only the first
\* branch, in declared order, whose condition is true on the input item: every
\* step it logs is a step of that branch, a success of a branch of linear
\* steps logs those steps once each in order, one running item is threaded
\* through them, and the result carries the label of that branch. When no
\* condition is true the result is the failure "No matching branch found"
\* with the input item, and the history is as before.
C5_FirstMatchingBranch ==
  ( /\ SteppedOn("branch")
    /\ \A k \in DOMAIN last.step.branches : ~BranchValue(k).thrown ) =>
  IF Matching = {}
    THEN /\ last.result = StepResult(FALSE, last.item, "No matching branch found")
         /\ last.after = last.history
    ELSE /\ HistoryKept
         /\ \A k \in DOMAIN NewEntries :
              NewEntries[k].stepId \in BranchStepIds(last.step.branches[FirstMatching])
         /\ ( /\ last.result.success
              /\ \A s \in Range(last.step.branches[FirstMatching].steps) :
                   s.type = "linear" ) =>
              [k \in DOMAIN NewEntries |-> NewEntries[k].stepId]
                = [k \in DOMAIN last.step.branches[FirstMatching].steps |->
                     last.step.branches[FirstMatching].steps[k].id]
         /\ Threaded
         /\ ~last.result.raised =>
              last.result.branchPath = Str(last.step.branches[FirstMatching].label)

\* two branches match, the first of them is not the first declared, and its
\* two sub-steps succeeded
C5_Witness ==
  /\ SteppedOn("branch")
  /\ Cardinality(Matching) >= 2
  /\ FirstMatching > 1
  /\ last.result.success
  /\ Len(NewEntries) = 2
  /\ last.result.item # last.item

\* what executeAction gives for the action of the linear step of the last
\* executeStep call
StepAction ==
  registryExecuteAction(last.step.actionId, last.item, last.id, last.oracle, 0)

\* C6: a linear step whose action executes successfully appends exactly one
\* entry to stepHistory, with the id of the step, the content of the item
\* before the action and of the item after it, and returns success with the
\* item of the action; the existing entries stay as they are.
C6_ExecutedActionIsLogged ==
  (SteppedOn("linear") /\ ~StepAction.thrown) =>
    /\ HistoryKept
    /\ Len(NewEntries) = 1
    /\ NewEntries[1].stepId = last.step.id
    /\ Content(NewEntries[1].itemBefore) = Content(last.item)
    /\ Content(NewEntries[1].itemAfter) = Content(StepAction.item)
    /\ last.result.success
    /\ last.result.item = StepAction.item

\* C6 for the linear steps that return success
C6_SuccessIsLogged ==
  (SteppedOn("linear") /\ last.result.success) =>
    /\ ~StepAction.thrown
    /\ HistoryKept
    /\ Len(NewEntries) = 1
    /\ NewEntries[1].stepId = last.step.id
    /\ Content(NewEntries[1].itemBefore) = Content(last.item)
    /\ Content(NewEntries[1].itemAfter) = Content(StepAction.item)
    /\ last.result.item = StepAction.item

\* C7: a linear step that returns a non-success result returns the input item
\* and leaves stepHistory as it was.
C7_FailureChangesNothing ==
  (SteppedOn("linear") /\ ~last.result.success) =>
    /\ last.result.item = last.item
    /\ last.after = last.history

\* C7 for the failures that come before the action has returned
C7_EarlyFailureChangesNothing ==
  (SteppedOn("linear") /\ ~last.result.success /\ StepAction.thrown) =>
    /\ last.result.item = last.item
    /\ last.after = last.history

\* what canExecuteAction gives for the action of the linear step
StepCheck == registryCanExecuteAction(last.step.actionId, last.item)

\* C8: executing a linear step never raises; an error thrown while checking
\* the preconditions or while executing the action gives the non-success
\* result with the input item and the message of the error.
C8_LinearStepNeverRaises ==
  SteppedOn("linear") =>
    /\ ~last.result.raised
    /\ StepCheck.thrown =>
         last.result = StepResult(FALSE, last.item,
                                  "Error executing step: " \o StepCheck.msg)
    /\ (~StepCheck.thrown /\ StepCheck.val /\ StepAction.thrown) =>
         last.result = StepResult(FALSE, last.item,
                                  "Error executing step: " \o StepAction.msg)

\* the preconditions hold and the action then finds no valid outcome
C8_Witness ==
  /\ SteppedOn("linear")
  /\ ~StepCheck.thrown /\ StepCheck.val
  /\ StepAction.thrown
  /\ last.result.message = "Error executing step: No valid outcomes for action Gated"

---------------------------------------------------------------------------
(* Properties of the action executor, checked under SpecCall *)

\* the last call was the given operation of the registry on a registered action
CalledOnAction(op) == last.op = op /\ IsRegistered(last.actionId)

CalledAction == actions[last.actionId]

\* the value of precondition k of the called action on the item of the call
PreconditionValue(k) == evaluate(CalledAction.preconditions[k], last.item)

IsTrue(r) == ~r.thrown /\ r.val
IsFalse(r) == ~r.thrown /\ ~r.val

\* the precondition-not-met error of executeAction, raised before a handler
\* ran or an outcome was selected: no draw was read, no uuid was taken
PreconditionError ==
  /\ last.result.thrown
  /\ last.result.msg =
       "Cannot execute action " \o CalledAction.name \o ": preconditions not met"
  /\ last.result.path = "none"
  /\ last.result.used = 0
  /\ last.result.uuid = last.id
  /\ last.result.item = last.item

\* the second sentence of C9: executeAction fails with the precondition-not-met
\* error exactly when canExecuteAction is false
FailsWhenCannotExecute ==
  CalledOnAction("executeAction") =>
    /\ IsFalse(canExecuteAction(CalledAction, last.item)) <=> PreconditionError
    /\ IsFalse(canExecuteAction(CalledAction, last.item)) <=>
         (last.result.thrown /\ last.result.msg =
            "Cannot execute action " \o CalledAction.name \o ": preconditions not met")

\* C9 as stated: canExecuteAction is true exactly when every precondition
\* evaluates true, and false as soon as one precondition is false, whatever
\* the other preconditions are; executeAction fails with the
\* precondition-not-met error exactly when canExecuteAction is false.
C9_FalseRegardlessOfOthers ==
  /\ CalledOnAction("canExecuteAction") =>
       /\ IsTrue(last.result) <=>
            \A k \in DOMAIN CalledAction.preconditions : IsTrue(PreconditionValue(k))
       /\ (\E k \in DOMAIN CalledAction.preconditions : IsFalse(PreconditionValue(k)))
            => IsFalse(last.result)
  /\ FailsWhenCannotExecute

\* C9, amended: canExecuteAction is true exactly when every precondition
\* evaluates true (so for no preconditions); it is false exactly when some
\* precondition is false and every precondition declared before it is true;
\* when the first precondition that is not true raises, canExecuteAction
\* raises that error, whatever the later preconditions are. executeAction
\* fails with the precondition-not-met error, before a handler runs or an
\* outcome is selected, exactly when canExecuteAction is false.
C9_FalseAtFirstNotTrue ==
  /\ CalledOnAction("canExecuteAction") =>
       /\ IsTrue(last.result) <=>
            \A k \in DOMAIN CalledAction.preconditions : IsTrue(PreconditionValue(k))
       /\ IsFalse(last.result) <=>
            \E k \in DOMAIN CalledAction.preconditions :
              /\ IsFalse(PreconditionValue(k))
              /\ \A j \in 1 .. k - 1 : IsTrue(PreconditionValue(j))
       /\ \A k \in DOMAIN CalledAction.preconditions :
            ( /\ PreconditionValue(k).thrown
              /\ \A j \in 1 .. k - 1 : IsTrue(PreconditionValue(j)) ) =>
            last.result = PreconditionValue(k)
  /\ FailsWhenCannotExecute

\* canExecuteAction is false on a false first precondition although the
\* second precondition raises
C9_Witness ==
  /\ CalledOnAction("canExecuteAction")
  /\ Len(CalledAction.preconditions) = 2
  /\ IsFalse(PreconditionValue(1))
  /\ PreconditionValue(2).thrown
  /\ IsFalse(last.result)

\* the item after the first n changes of a list, applied one after the other
RECURSIVE AfterChanges(_, _, _, _)
AfterChanges(item, changes, n, id) ==
  IF n = 0 THEN [item |-> item, uuid |-> id]
  ELSE applyChange(AfterChanges(item, changes, n - 1, id).item, changes[n],
                   AfterChanges(item, changes, n - 1, id).uuid)

\* the changes of the outcome the last executeAction call reports
ReportedChanges == CalledAction.outcomes[last.result.outcome].changes

---------------------------------------------------------------------------
(* Properties of the item model, checked under SpecItem *)

\* C11: a mutator or a built-in handler writes to no item object that
\* existed before the call: every object the host held keeps its content, the
\* item the host started with is still one of the starting items after any
\* sequence of calls, and a result that differs from the input is a new
\* object.
C11_InputItemUnchanged ==
  last.op = "mutate" =>
    /\ heap[1] \in WorkItems
    /\ \A ref \in DOMAIN last.before :
         ref \in DOMAIN heap /\ heap[ref] = last.before[ref]
    /\ heap[last.out] # last.before[last.ref] => last.out \notin DOMAIN last.before

\* two calls in a row that each changed something, the second a mutator
C11_Witness ==
  /\ last.op = "mutate"
  /\ last.name = "updateModifier"
  /\ last.calls = MaxCalls
  /\ Len(heap) = MaxCalls + 1
  /\ heap[1] # heap[2]
  /\ heap[2] # heap[3]


\* the item a mutator was called on and the item it returned
MutatorInput == last.before[last.ref]
MutatorOutput == heap[last.out]

\* C17: linkSockets(item, ids) gives every socket whose id is in ids exactly
\* the other ids of ids as its links, whatever its links were, and leaves
\* every socket whose id is not in ids, and the rest of the item, unchanged;
\* for ids = [a, b] with a and b two sockets of the item, a lists b and b
\* lists a.
C17_LinkSocketsRelinks ==
  (last.op = "mutate" /\ last.name = "linkSockets") =>
    LET ids == last.args[1]
        before == MutatorInput.sockets
        after == MutatorOutput.sockets
    IN /\ DOMAIN after = DOMAIN before
       /\ [MutatorOutput EXCEPT !.sockets = <<>>] = [MutatorInput EXCEPT !.sockets = <<>>]
       /\ \A k \in DOMAIN before :
            IF before[k].id \in Range(ids)
              THEN /\ after[k].id = before[k].id
                   /\ after[k].color = before[k].color
                   /\ Range(after[k].links) = Range(ids) \ {before[k].id}
              ELSE after[k] = before[k]
       /\ (Len(ids) = 2 /\ ids[1] # ids[2]) =>
            \A k \in DOMAIN after, j \in DOMAIN after :
              (after[k].id = ids[1] /\ after[j].id = ids[2]) =>
                /\ ids[2] \in Range(after[k].links)
                /\ ids[1] \in Range(after[j].links)

\* two sockets are linked to each other; one of them was linked to a third
\* socket before, which keeps its links
C17_Witness ==
  /\ last.op = "mutate"
  /\ last.name = "linkSockets"
  /\ last.args[1] = <<9, 7>>
  /\ Len(MutatorInput.sockets) = 3
  /\ MutatorInput.sockets[1] = Socket(7, <<8>>)
  /\ MutatorOutput.sockets = <<Socket(7, <<9>>), Socket(8, <<7>>), Socket(9, <<7>>)>>


\* the most prefixes, and the most suffixes, an item of a rarity may have
RarityMaximum(rarity) ==
  CASE rarity = "normal" -> 0
    [] rarity = "magic" -> 1
    [] rarity = "rare" -> 3
    [] rarity = "unique" -> 6

CountOfType(item, type) ==
  Cardinality({k \in DOMAIN item.modifiers : item.modifiers[k].type = type})

PrefixOverflow(item) == CountOfType(item, "prefix") > RarityMaximum(item.rarity)
SuffixOverflow(item) == CountOfType(item, "suffix") > RarityMaximum(item.rarity)

DuplicateNames(item) ==
  \E j \in DOMAIN item.modifiers, k \in DOMAIN item.modifiers :
    j # k /\ item.modifiers[j].name = item.modifiers[k].name

\* the links <<k, n>>: link n of socket k
Links(item) ==
  {<<k, n>> \in (DOMAIN item.sockets) \X (1 .. 8) : n \in DOMAIN item.sockets[k].links}

LinkedId(item, link) == item.sockets[link[1]].links[link[2]]

\* links to a socket the item does not have
DanglingLinks(item) ==
  {link \in Links(item) :
     \A j \in DOMAIN item.sockets : item.sockets[j].id # LinkedId(item, link)}

\* links to a socket of the item that does not link back
OneWayLinks(item) ==
  {link \in Links(item) :
     \E j \in DOMAIN item.sockets :
       /\ item.sockets[j].id = LinkedId(item, link)
       /\ item.sockets[link[1]].id \notin Range(item.sockets[j].links)}

Count(violated) == IF violated THEN 1 ELSE 0

\* the number of errors the rules call for: one for a prefix overflow, one
\* for a suffix overflow, one for duplicate names, one for every faulty link
Violations(item) ==
  Count(PrefixOverflow(item)) + Count(SuffixOverflow(item)) + Count(DuplicateNames(item))
  + Cardinality(DanglingLinks(item)) + Cardinality(OneWayLinks(item))

\* C18: validateItem reports isValid = false exactly when a rule is violated
\* and reports every violation: as many errors as there are violations, the
\* prefix overflow, the suffix overflow and the duplicate names each with
\* their message. A rare item with 4 prefixes of distinct names and no other
\* violation gets exactly the error 'Too many prefix modifiers: 4/3'.
C18_ValidateItemReportsAll ==
  last.op = "validateItem" =>
    /\ last.result.isValid <=> Violations(last.item) = 0
    /\ last.result.isValid <=> last.result.errors = <<>>
    /\ Len(last.result.errors) = Violations(last.item)
    /\ PrefixOverflow(last.item) <=>
         \E k \in DOMAIN last.result.errors :
           last.result.errors[k] =
             "Too many prefix modifiers: "
             \o ToString(CountOfType(last.item, "prefix")) \o "/"
             \o ToString(RarityMaximum(last.item.rarity))
    /\ SuffixOverflow(last.item) <=>
         \E k \in DOMAIN last.result.errors :
           last.result.errors[k] =
             "Too many suffix modifiers: "
             \o ToString(CountOfType(last.item, "suffix")) \o "/"
             \o ToString(RarityMaximum(last.item.rarity))
    /\ (/\ last.item.rarity = "rare"
        /\ CountOfType(last.item, "prefix") = 4
        /\ Violations(last.item) = 1)
         => last.result.errors = <<"Too many prefix modifiers: 4/3">>

\* a rare item with 4 prefixes of distinct names and nothing else wrong
C18_Witness ==
  /\ last.op = "validateItem"
  /\ last.item.rarity = "rare"
  /\ CountOfType(last.item, "prefix") = 4
  /\ ~DuplicateNames(last.item)
  /\ Violations(last.item) = 1
  /\ ~last.result.isValid
  /\ last.result.errors = <<"Too many prefix modifiers: 4/3">>

---------------------------------------------------------------------------
(* Properties of the seeded actions and of the evaluator, checked under    *)
(* SpecCall                                                                *)

\* C12: executeAction('chaos_orb', item) on a rare item that is not corrupted
\* returns an item that is still rare, keeps none of the modifiers it had
\* (every modifier has an id made during the call) and has 0 to 3 prefixes
\* and 0 to 3 suffixes and no other modifier, everything else as before; on a
\* corrupted item or an item that is not rare it fails with the
\* precondition-not-met error.
C12_ChaosOrbRerolls ==
  (last.op = "executeAction" /\ last.actionId = "chaos_orb") =>
    IF last.item.rarity = "rare" /\ ~last.item.isCorrupted
      THEN /\ ~last.result.thrown
           /\ last.result.item.rarity = "rare"
           /\ \A k \in DOMAIN last.result.item.modifiers :
                /\ last.result.item.modifiers[k].id >= last.id
                /\ last.result.item.modifiers[k].id < last.result.uuid
                /\ \A j \in DOMAIN last.item.modifiers :
                     last.item.modifiers[j].id # last.result.item.modifiers[k].id
           /\ getPrefixCount(last.result.item) \in 0 .. 3
           /\ getSuffixCount(last.result.item) \in 0 .. 3
           /\ Len(last.result.item.modifiers)
                = getPrefixCount(last.result.item) + getSuffixCount(last.result.item)
           /\ [last.result.item EXCEPT !.modifiers = <<>>]
                = [last.item EXCEPT !.modifiers = <<>>]
      ELSE PreconditionError

\* a rare item with three modifiers rerolled to other modifiers
C12_Witness ==
  /\ last.op = "executeAction"
  /\ last.actionId = "chaos_orb"
  /\ last.item.rarity = "rare"
  /\ ~last.item.isCorrupted
  /\ Len(last.item.modifiers) = 3
  /\ ~last.result.thrown
  /\ getPrefixCount(last.result.item) = 3
  /\ getSuffixCount(last.result.item) = 2

\* the list of a composite condition is absent or empty
NoEntries(condition) == condition.absent \/ condition.conditions = <<>>

\* C13: on every item, 'and' over an empty or absent list is true, 'or' over
\* an empty or absent list is false, 'not' over an empty or absent list is
\* true, and 'not' over a list with entries is the negation of the first
\* entry alone: false where it is true, true where it is false, and the
\* error of the first entry where it raises, whatever the second entry is.
C13_EmptyAndFirstEntry ==
  last.op = "evaluate" =>
    /\ (last.condition.operator = "and" /\ NoEntries(last.condition))
         => last.result = Ok(TRUE)
    /\ (last.condition.operator = "or" /\ NoEntries(last.condition))
         => last.result = Ok(FALSE)
    /\ (last.condition.operator = "not" /\ NoEntries(last.condition))
         => last.result = Ok(TRUE)
    /\ (last.condition.operator = "not" /\ ~NoEntries(last.condition))
         => LET first == evaluate(last.condition.conditions[1], last.item)
            IN /\ IsTrue(first) => last.result = Ok(FALSE)
               /\ IsFalse(first) => last.result = Ok(TRUE)
               /\ first.thrown => last.result = first

\* a 'not' whose first entry is true and whose second entry is false
C13_Witness ==
  /\ last.op = "evaluate"
  /\ last.condition.operator = "not"
  /\ Len(last.condition.conditions) = 2
  /\ IsTrue(evaluate(last.condition.conditions[1], last.item))
  /\ IsFalse(evaluate(last.condition.conditions[2], last.item))
  /\ last.result = Ok(FALSE)

\* the sum of the weights of the first k outcomes
RECURSIVE Cumulative(_, _)
Cumulative(outcomes, k) ==
  IF k = 0 THEN 0 ELSE Cumulative(outcomes, k - 1) + outcomes[k].probability

\* the cumulative weight of the first k outcomes reaches or exceeds the scaled
\* draw (d / RandDen) * sum
Reaches(outcomes, k, d) ==
  d * Cumulative(outcomes, Len(outcomes)) <= Cumulative(outcomes, k) * RandDen

\* C14: if the sum of the weights is <= 0 the first outcome is selected;
\* otherwise the selected outcome is the first, in declared order, whose
\* cumulative weight reaches or exceeds the scaled draw, and the last one if
\* none does. For the weights 0.2 and 0.8 a scaled draw of at most 0.2 selects
\* the first outcome and a larger one the second.
C14_FirstCumulativeReachingDraw ==
  last.op = "selectOutcome" =>
    LET outcomes == last.outcomes
        n == Len(last.outcomes)
        d == last.draw
        k == last.result.k
    IN /\ Cumulative(outcomes, n) <= 0 => k = 1
       /\ Cumulative(outcomes, n) > 0 =>
            IF \E j \in 1 .. n : Reaches(outcomes, j, d)
              THEN Reaches(outcomes, k, d) /\ \A j \in 1 .. (k - 1) : ~Reaches(outcomes, j, d)
              ELSE k = n
       /\ (n = 2 /\ outcomes[1].probability = 2 /\ outcomes[2].probability = 8) =>
            k = IF 10 * d <= 2 * RandDen THEN 1 ELSE 2

\* the weights 0.2 and 0.8 with a draw beyond 0.2: the second outcome
C14_Witness ==
  /\ last.op = "selectOutcome"
  /\ Len(last.outcomes) = 2
  /\ last.outcomes[1].probability = 2
  /\ last.outcomes[2].probability = 8
  /\ 10 * last.draw > 2 * RandDen
  /\ last.result.k = 2

---------------------------------------------------------------------------
(* Properties of the guide store, checked under SpecStore *)

\* what JSON.parse made of the text of the last importGuide
ImportedData == parse(last.guideJson)

\* the validation rules a step breaks
BrokenRules(step) ==
  CASE step.type = "linear" -> {r \in {"actionId"} : step.actionId = ""}
    [] step.type = "conditional" ->
         {r \in {"condition"} : step.condition = Undef}
         \cup {r \in {"trueStep"} : step.trueStep = Undef}
         \cup {r \in {"falseStep"} : step.falseStep = Undef}
    [] step.type = "branch" -> {r \in {"branches"} : Len(step.branches) = 0}
    [] step.type = "loop" ->
         {r \in {"condition"} : step.condition = Undef}
         \cup {r \in {"steps"} : Len(step.steps) = 0}
    [] OTHER -> {}

\* the number of rules the first k steps break
RECURSIVE BrokenCount(_, _)
BrokenCount(steps, k) ==
  IF k = 0 THEN 0 ELSE BrokenCount(steps, k - 1) + Cardinality(BrokenRules(steps[k]))

\* the guides stored before the last call are stored unchanged
StoreKept == \A id \in DOMAIN last.before : id \in DOMAIN guides /\ guides[id] = last.before[id]

\* C15: an importGuide that fails leaves the store as it was. On data that
\* breaks validation rules it fails with 'Invalid guide: ' followed by all the
\* validation errors, one for each broken rule. On valid data the guide is
\* stored under an id that was not in the store and is not the id the data
\* carries, and every guide stored before is still stored unchanged.
C15_ImportRejectsOrStoresFresh ==
  last.op = "importGuide" =>
    /\ last.result.thrown => guides = last.before
    /\ (~ImportedData.thrown /\ ImportedData.hasSteps) =>
         IF BrokenCount(ImportedData.value.steps, Len(ImportedData.value.steps)) > 0
           THEN /\ last.result.thrown
                /\ last.result.msg =
                     "Invalid guide: "
                     \o Join(validateGuide(ImportedData.value).errors, ", ")
                /\ Len(validateGuide(ImportedData.value).errors)
                     = BrokenCount(ImportedData.value.steps,
                                   Len(ImportedData.value.steps))
           ELSE /\ ~last.result.thrown
                /\ last.result.guide.id \notin DOMAIN last.before
                /\ last.result.guide.id # ImportedData.value.id
                /\ DOMAIN guides = (DOMAIN last.before) \cup {last.result.guide.id}
                /\ guides[last.result.guide.id] = last.result.guide
                /\ StoreKept

\* data carrying the id of a stored guide is imported next to that guide
C15_Witness ==
  /\ last.op = "importGuide"
  /\ ~last.result.thrown
  /\ ImportedData.value.id \in DOMAIN last.before
  /\ ImportedData.value.title = "Foreign"
  /\ Cardinality(DOMAIN guides) = Cardinality(DOMAIN last.before) + 1

\* a guide without id, createdAt and updatedAt
Described(guide) ==
  [title |-> guide.title, targetItem |-> guide.targetItem, steps |-> guide.steps]

\* the stored guides whose export the last importGuide was given
ExportedFrom == {id \in DOMAIN last.before : stringify(last.before[id]) = last.guideJson}

\* the last importGuide returned a copy of g: equal to g in every field but
\* id, createdAt and updatedAt, stored next to g
CopyOf(g) ==
  /\ ~last.result.thrown
  /\ Described(last.result.guide) = Described(g)
  /\ last.result.guide.id # g.id
  /\ guides[last.result.guide.id] = last.result.guide
  /\ guides[g.id] = g

---------------------------------------------------------------------------
(* Properties of two execution states of one guide, checked under SpecPair *)

\* an id with the ids made by uuidv4() told apart from no other such id
Anonymous(id) == IF id >= FirstUuid THEN 0 ELSE id

AnonymousModifier(modifier) == [modifier EXCEPT !.id = Anonymous(@)]

AnonymousSocket(socket) ==
  [socket EXCEPT !.id = Anonymous(@),
                 !.links = [k \in DOMAIN socket.links |-> Anonymous(socket.links[k])]]

\* the content of an item: the item with the ids made by uuidv4() left out
ItemContent(item) ==
  [item EXCEPT !.id = 0,
               !.modifiers = [k \in DOMAIN item.modifiers |->
                                AnonymousModifier(item.modifiers[k])],
               !.sockets = [k \in DOMAIN item.sockets |->
                              AnonymousSocket(item.sockets[k])]]

\* cursor, item content and history of an execution state
Course(state) ==
  [currentStepIndex |-> state.currentStepIndex,
   currentItem |-> ItemContent(state.currentItem),
   stepHistory |-> [k \in DOMAIN state.stepHistory |->
                      [stepId |-> state.stepHistory[k].stepId,
                       itemBefore |-> ItemContent(state.stepHistory[k].itemBefore),
                       itemAfter |-> ItemContent(state.stepHistory[k].itemAfter)]]]

\* the calls of executeNextStep from the k-th on, run with no other call in
\* between
RECURSIVE AloneFrom(_, _, _, _)
AloneAfter(r, oracles, k) == AloneFrom(r.es, oracles, k + 1, r.uuid)

AloneFrom(state, oracles, k, id) ==
  IF k > Len(oracles) THEN state
  ELSE AloneAfter(executeNextStep(state, PairOptions, oracles[k], id), oracles, k)

\* the execution state of an owner had its calls been the only ones
Alone(owner) ==
  AloneFrom(createExecutionState(owner.state.guideId, owner.startingItem, FirstUuid),
            owner.oracles, 1, FirstUuid + 1)

---------------------------------------------------------------------------
(* Properties of the action registry, checked under SpecCall *)

\* the last call was the given operation of the registry with an id that is
\* not registered
CalledOnUnregistered(op) == last.op = op /\ ~IsRegistered(last.actionId)

\* as before, and the id names nothing an object inherits either
CalledOnMissing(op) == last.op = op /\ ~IsFound(last.actionId)

ActionNotFound == "Action not found: " \o last.actionId

\* the registry's call returned exactly what the Action Executor returns for
\* the registered action
PassedThrough ==
  /\ CalledOnAction("canExecuteAction") =>
       last.result = canExecuteAction(CalledAction, last.item)
  /\ CalledOnAction("executeAction") =>
       last.result = executeAction(CalledAction, last.item, last.id, last.oracle, 0)

\* C20: with an id that is not registered, canExecuteAction and executeAction
\* both fail with the action-not-found error; with a registered id they
\* return exactly what the Action Executor returns for that action.
C20_MissingActionFailsBoth ==
  /\ CalledOnUnregistered("canExecuteAction") \/ CalledOnUnregistered("executeAction") =>
       last.result.thrown /\ last.result.msg = ActionNotFound
  /\ PassedThrough

\* executeAction alone fails with the action-not-found error for an id that
\* is not registered
C20_ExecuteActionFailsNotFound ==
  CalledOnUnregistered("executeAction") =>
    last.result.thrown /\ last.result.msg = ActionNotFound

\* what holds: with an id the table finds nothing under, executeAction fails
\* with 'Action not found: <id>' and leaves the item alone, and
\* canExecuteAction returns false without an error; with a registered id both
\* return exactly what the Action Executor returns for that action.
C20_MissingActionFailsExecuteOnly ==
  /\ CalledOnMissing("executeAction") =>
       /\ last.result.thrown
       /\ last.result.msg = ActionNotFound
       /\ last.result.item = last.item
  /\ CalledOnMissing("canExecuteAction") => last.result = Ok(FALSE)
  /\ PassedThrough

\* executeAction was called with an id that is not registered
C20_MissingThrown ==
  /\ CalledOnMissing("executeAction")
  /\ last.result.msg = "Action not found: missing_action"

\* canExecuteAction answered false for an id that is not registered
C20_Witness ==
  /\ CalledOnMissing("canExecuteAction")
  /\ ~last.result.thrown /\ ~last.result.val

\* executeAction with the unregistered id toString failed on the
\* preconditions of an inherited function
C20_InheritedFound ==
  /\ CalledOnUnregistered("executeAction")
  /\ last.actionId = "toString"
  /\ last.result.thrown
  /\ last.result.msg = NoPreconditions

\* both calls passed a registered action through to the executor, one that
\* changed the item among them
C20_PassedThroughReached ==
  /\ CalledOnAction("executeAction")
  /\ ~last.result.thrown
  /\ last.result.item # last.item

---------------------------------------------------------------------------
(* Properties of the condition evaluator, checked under SpecCall *)

\* the operators evaluate has a case for
BuiltInOperators ==
  {"equals", "notEquals", "greaterThan", "lessThan", "contains", "hasModifier",
   "hasProperty", "and", "or", "not"}

\* evaluate was called on a condition whose operator it has no case for
EvaluatedUnknown == last.op = "evaluate" /\ last.condition.operator \notin BuiltInOperators

\* what the evaluator registered under the name returns
Delegated(name, condition, item) ==
  CASE name = "corruption_check" -> evaluateCorruptionCheck(condition, item)
    [] name = "socket_check" -> evaluateSocketCheck(condition, item)
    [] name = "modifier_tier_check" -> evaluateModifierTierCheck(condition, item)

UnknownOperator == Throw("Unknown condition operator: " \o last.condition.operator)

\* C21: a condition whose operator is not a built-in one is evaluated by the
\* evaluator registered under its customEvaluator, and raises 'Unknown
\* condition operator' when no evaluator is registered under that name; it
\* never answers false, or anything else, without a registered evaluator.
C21_UnknownOperatorDelegatesOrFails ==
  EvaluatedUnknown =>
    IF last.condition.customEvaluator \in customEvaluators
      THEN last.result = Delegated(last.condition.customEvaluator, last.condition, last.item)
      ELSE last.result = UnknownOperator

\* the same for the names that no object inherits: registered names delegate,
\* all other such names raise
C21_DelegatesOrFailsUnlessInherited ==
  (EvaluatedUnknown /\ last.condition.customEvaluator \notin InheritedMembers) =>
    IF last.condition.customEvaluator \in customEvaluators
      THEN last.result = Delegated(last.condition.customEvaluator, last.condition, last.item)
      ELSE last.result = UnknownOperator

\* an unknown operator with the unregistered evaluator name hasOwnProperty
\* evaluated to false
C21_SilentFalse ==
  /\ EvaluatedUnknown
  /\ last.condition.customEvaluator = "hasOwnProperty"
  /\ last.result = Ok(FALSE)

\* an unknown operator without a registered evaluator raised
C21_FatalReached ==
  /\ EvaluatedUnknown
  /\ last.condition.customEvaluator = "level_check"
  /\ last.result.thrown

---------------------------------------------------------------------------
(* Properties of the Action Executor called directly, checked under SpecCall *)

\* the executor's executeAction was called and the preconditions held
Executed == last.op = "executorExecuteAction"

\* the outcome an action reports on the custom handler path: its first, or
\* none (0) when it declares none
FirstOutcome(action) == IF action.outcomes = <<>> THEN 0 ELSE 1

\* the result of the custom handler path: the handler's item, the first
\* outcome, and no draw besides the handler's own
HandlerResult(action) ==
  LET h == callHandler(action.customHandler, last.item, last.id, last.oracle, 0)
  IN /\ ~last.result.thrown
     /\ last.result.item = h.item
     /\ last.result.outcome = FirstOutcome(action)
     /\ last.result.used = h.used

\* the result of the declarative path
DeclaredResult(action) ==
  last.result = executeDeclared(validOutcomes(action.outcomes, 1, last.item), action,
                                last.item, last.id, last.oracle, 0)

\* C22 as stated: with a registered customHandler, executeAction returns the
\* handler's item and reports the first declared outcome, whatever the
\* outcome conditions are and without drawing an outcome; with a customHandler
\* name that is not registered it takes the declarative path.
C22_HandlerOrDeclarativePath ==
  (Executed /\ last.action.customHandler # "") =>
    IF last.action.customHandler \in customHandlers
      THEN HandlerResult(last.action)
      ELSE DeclaredResult(last.action)

\* the same for the names that no object inherits
C22_HandlerOrDeclarativeUnlessInherited ==
  (Executed /\ last.action.customHandler # ""
            /\ last.action.customHandler \notin InheritedMembers) =>
    IF last.action.customHandler \in customHandlers
      THEN HandlerResult(last.action)
      ELSE DeclaredResult(last.action)

\* the handler path was taken past a first outcome whose conditions raise
C22_HandlerPastRaisingOutcome ==
  /\ Executed
  /\ last.action.customHandler = "exalted_orb"
  /\ Len(last.action.outcomes) = 2
  /\ evaluateEvery(last.action.outcomes[1].conditions, last.item).thrown
  /\ last.result.outcome = 1
  /\ Len(last.result.item.modifiers) = Len(last.item.modifiers) + 1

\* an unregistered handler name fell through to the declarative path, which
\* applied an outcome
C22_FellThrough ==
  /\ Executed
  /\ last.action.customHandler = "unregistered_handler"
  /\ ~last.result.thrown
  /\ last.result.path = "declared"
  /\ last.result.item # last.item

\* the unregistered handler name hasOwnProperty was called and its answer,
\* false, returned as the item
C22_InheritedHandlerCalled ==
  /\ Executed
  /\ last.action.customHandler = "hasOwnProperty"
  /\ last.action.outcomes # <<>>
  /\ last.result.item = Bool(FALSE)

---------------------------------------------------------------------------
(* Properties of guide validation, checked under SpecStore *)

\* the number of required members a step lacks: the actionId of a linear
\* step; the condition, the true step and the false step of a conditional
\* step; the branches of a branch step; the condition and the steps of a loop
Lacks(member) == IF member = Undef \/ member = <<>> THEN 1 ELSE 0

Defects(step) ==
  CASE step.type = "linear" -> IF step.actionId = "" THEN 1 ELSE 0
    [] step.type = "conditional" ->
         Lacks(step.condition) + Lacks(step.trueStep) + Lacks(step.falseStep)
    [] step.type = "branch" -> Lacks(step.branches)
    [] step.type = "loop" -> Lacks(step.condition) + Lacks(step.steps)
    [] OTHER -> 0

\* the defects of the first k steps
RECURSIVE DefectsUpTo(_, _)
DefectsUpTo(steps, k) ==
  IF k = 0 THEN 0 ELSE DefectsUpTo(steps, k - 1) + Defects(steps[k])

\* the text every error of step k begins with
ErrorPrefix(steps, k) == "Step " \o ToString(k) \o " (" \o steps[k].type \o "): "

BeginsWith(text, prefix) ==
  Len(text) >= Len(prefix) /\ SubSeq(text, 1, Len(prefix)) = prefix

\* C23: validateGuide reports one error for every required member a step
\* lacks, the errors of step k after those of the steps before it and each
\* naming step k and its type, so the errors of all steps are collected;
\* isValid is true exactly when there is no error; no error reports a circular
\* reference.
C23_ValidateGuideCollectsAll ==
  last.op = "validateGuide" =>
    LET steps == last.guide.steps
        errors == last.result.errors
    IN /\ Len(errors) = DefectsUpTo(steps, Len(steps))
       /\ \A k \in DOMAIN steps :
            \A e \in (DefectsUpTo(steps, k - 1) + 1) .. DefectsUpTo(steps, k) :
              BeginsWith(errors[e], ErrorPrefix(steps, k))
       /\ last.result.isValid <=> errors = <<>>
       /\ \A e \in DOMAIN errors :
            errors[e] # "Guide contains circular references in conditional steps"

\* a conditional step lacking all three members followed by an empty loop:
\* four errors, the last one of the second step
C23_Witness ==
  /\ last.op = "validateGuide"
  /\ Len(last.guide.steps) = 2
  /\ Defects(last.guide.steps[1]) = 3
  /\ last.guide.steps[2].type = "loop"
  /\ Len(last.result.errors) = 4
  /\ last.result.errors[4] = "Step 2 (loop): No steps defined in loop"
  /\ ~last.result.isValid

\* a guide whose steps are all complete is valid, nested steps unseen
C23_ValidReached ==
  /\ last.op = "validateGuide"
  /\ Len(last.guide.steps) = 2
  /\ last.guide.steps[1].type = "conditional"
  /\ last.guide.steps[1].falseStep = LinearStep("f", "")
  /\ last.result.isValid

---------------------------------------------------------------------------
(* Properties of the editing operations, checked under SpecEdit *)

\* the last operation was name
EditedBy(name) == last.op = "edit" /\ last.name = name

\* every guide of the store is stored under its own id
KeyedByOwnId == \A k \in DOMAIN guides : guides[k].id = k

\* every guide but the one under id is stored as before
OthersKept(id) ==
  /\ (DOMAIN guides) \ {id} = (DOMAIN last.before) \ {id}
  /\ \A k \in (DOMAIN guides) \ {id} : guides[k] = last.before[k]

\* updateGuide on a stored guide keeps its id, whatever the updates carry
UpdateGuideKeepsId ==
  (EditedBy("updateGuide") /\ last.args[1] \in DOMAIN last.before) =>
    /\ last.args[1] \in DOMAIN guides
    /\ guides[last.args[1]].id = last.args[1]
    /\ \A f \in (DOMAIN last.args[2]) \ {"id"} :
         guides[last.args[1]][f] = last.args[2][f]
    /\ OthersKept(last.args[1])

\* updateStep that found its step keeps the id and the type of that step
UpdateStepKeepsIdAndType ==
  (EditedBy("updateStep") /\ last.result = Bool(TRUE)) =>
    LET before == last.before[last.args[1]].steps
        after == guides[last.args[1]].steps
        index == FindStep(before, last.args[2])
    IN /\ DOMAIN after = DOMAIN before
       /\ after[index].id = before[index].id
       /\ after[index].type = before[index].type
       /\ \A f \in (DOMAIN last.args[3]) \ {"id", "type"} :
            after[index][f] = last.args[3][f]
       /\ \A k \in (DOMAIN before) \ {index} : after[k] = before[k]

\* deleteGuide removes the guide under the id and nothing else
DeleteGuideRemovesOne ==
  EditedBy("deleteGuide") =>
    /\ last.args[1] \notin DOMAIN guides
    /\ OthersKept(last.args[1])

\* C24: after any sequence of operations every stored guide is keyed by its
\* own id; updateGuide keeps the id of the guide even when the updates carry
\* another, and for an id under which no guide is stored it returns null and
\* leaves the store as it is; updateStep keeps the id and the type of the
\* step even when the patch carries others; deleteGuide removes exactly the
\* guide with the given id.
C24_StoreKeyedByOwnId ==
  /\ KeyedByOwnId
  /\ UpdateGuideKeepsId
  /\ (EditedBy("updateGuide") /\ last.args[1] \notin DOMAIN last.before) =>
       last.result = Undef /\ guides = last.before
  /\ UpdateStepKeepsIdAndType
  /\ DeleteGuideRemovesOne

\* the same, with updateGuide returning null only for an id that names
\* neither a stored guide nor a member every object inherits
C24_KeyedUnlessInherited ==
  /\ KeyedByOwnId
  /\ UpdateGuideKeepsId
  /\ (EditedBy("updateGuide") /\ ~Found(last.before, last.args[1])) =>
       last.result = Undef /\ guides = last.before
  /\ UpdateStepKeepsIdAndType
  /\ DeleteGuideRemovesOne

\* updateGuide with the id toString, under which nothing was stored, stored
\* a guide
C24_UnknownIdStored ==
  /\ EditedBy("updateGuide")
  /\ last.args[1] = "toString"
  /\ "toString" \notin DOMAIN last.before
  /\ "toString" \in DOMAIN guides
  /\ last.result # Undef

\* updateGuide with updates that carry the id of another stored guide kept
\* the id, after an updateStep whose patch carried another id and type
C24_IdKeptReached ==
  /\ EditedBy("updateGuide")
  /\ last.args[1] = GuideId(FirstUuid + 1)
  /\ last.args[1] \in DOMAIN last.before
  /\ last.args[2].title = "Taken"
  /\ guides[last.args[1]].title = "Taken"
  /\ GuideId(FirstUuid) \in DOMAIN guides
  /\ guides[GuideId(FirstUuid)].steps # <<>>
  /\ guides[GuideId(FirstUuid)].steps[1].type = "linear"
  /\ guides[GuideId(FirstUuid)].steps[1].actionId = "augment"

---------------------------------------------------------------------------
(* Properties of the import of share documents, checked under SpecStore.    *)

ImportedFromJson == last.op = "importGuideFromJson"

\* the input carries the discriminant: type 'poe2-craft-guide' and a guide
Discriminated ==
  /\ last.jsonData.kind = "object"
  /\ "type" \in DOMAIN last.jsonData.value
  /\ last.jsonData.value.type = ShareType
  /\ last.jsonData.value.guide # Undef

\* the text of the guide the input stands for: the wrapped guide, or the input
GuideText == IF Discriminated THEN last.jsonData.value.guide ELSE last.jsonData

\* what importGuide does with that text on the store as it was
Directly == importGuide(last.before, GuideText, last.id, last.now)

\* C25: importGuideFromJson imports the guide wrapped in an input that carries
\* the discriminant, and the input itself otherwise; it fails when importGuide
\* fails on that guide, storing nothing, and otherwise returns and stores the
\* guide importGuide stores, under an id that was not in the store, next to
\* the guides stored before.
C25_ImportFromJsonUnwraps ==
  ImportedFromJson =>
    /\ last.result.thrown = Directly.thrown
    /\ last.result.guide = Directly.guide
    /\ guides = Directly.guides
    /\ last.result.thrown => guides = last.before
    /\ ~last.result.thrown =>
         /\ last.result.guide.id \notin DOMAIN last.before
         /\ guides[last.result.guide.id] = last.result.guide
         /\ StoreKept
         /\ validateGuide(parse(GuideText).value).isValid

\* the share document of a stored guide was imported next to the guide
C25_Witness ==
  /\ ImportedFromJson
  /\ Discriminated
  /\ ~last.result.thrown
  /\ \E id \in DOMAIN last.before :
       /\ last.jsonData = exportGuideToShareFormat(last.before, id, 0, 1).text
       /\ last.result.guide.steps = last.before[id].steps
       /\ last.result.guide.id # id
  /\ Cardinality(DOMAIN guides) = Cardinality(DOMAIN last.before) + 1

\* a raw guide was imported
C25_RawImported ==
  /\ ImportedFromJson
  /\ ~Discriminated
  /\ ~last.result.thrown

\* a share document around an invalid guide was rejected by the validation
C25_WrappedInvalidRejected ==
  /\ ImportedFromJson
  /\ Discriminated
  /\ last.result.thrown
  /\ BeginsWith(last.result.msg, "Invalid guide format: Invalid guide: ")

---------------------------------------------------------------------------
(* Properties of a failing sub-step of a branch or loop, checked under      *)
(* SpecCall.                                                                *)

\* The walk of a list of sub-steps from a running item: failed tells whether
\* a sub-step returned a non-success result; item is then the running item
\* the sub-steps before it produced, sub the result of the failed sub-step,
\* step the failed sub-step and st the execution state it left.
RECURSIVE SubWalk(_, _, _, _)
SubWalk(steps, item, st, env) ==
  IF steps = <<>> THEN [failed |-> FALSE, raised |-> FALSE, item |-> item, st |-> st]
  ELSE LET r == executeStep(Head(steps), item, st, env)
       IN IF r.res.raised THEN [failed |-> FALSE, raised |-> TRUE]
          ELSE IF ~r.res.success
            THEN [failed |-> TRUE, raised |-> FALSE, item |-> item, sub |-> r.res,
                  step |-> Head(steps), st |-> r.st]
          ELSE SubWalk(Tail(steps), r.res.item, r.st, env)

\* The walks of the iterations of a loop after n of them: iteration tells the
\* number of the iteration a sub-step failed in.
RECURSIVE LoopWalk(_, _, _, _, _)
LoopWalk(step, item, st, env, n) ==
  LET c == evaluate(step.condition, item)
      w == SubWalk(step.steps, item, st, env)
  IN IF c.thrown \/ ~c.val \/ n >= LoopCap(step, env.options)
       THEN [failed |-> FALSE, raised |-> c.thrown]
     ELSE IF w.failed THEN w @@ [iteration |-> n + 1]
     ELSE IF w.raised THEN w
     ELSE LoopWalk(step, w.item, w.st, env, n + 1)

\* the walk of the sub-steps of the last executeStep call, on a branch step
\* with a matching branch or on a loop step
LastWalk ==
  IF last.step.type = "loop"
    THEN LoopWalk(last.step, last.item, Thread(last.history, last.id, 0),
                  [oracle |-> last.oracle, options |-> last.options], 0)
  ELSE IF Matching = {} THEN [failed |-> FALSE, raised |-> FALSE]
  ELSE SubWalk(last.step.branches[FirstMatching].steps, last.item,
               Thread(last.history, last.id, 0),
               [oracle |-> last.oracle, options |-> last.options])

\* a sub-step of the last executeStep call, on a branch or loop step, failed
SubStepFailed ==
  /\ last.op = "executeStep"
  /\ last.step.type \in {"branch", "loop"}
  /\ last.step.type = "branch" => \A k \in DOMAIN last.step.branches : ~BranchValue(k).thrown
  /\ LastWalk.failed

\* the result is a non-success, the loop names the iteration, and nothing was
\* executed after the failed sub-step: the history and the draws read are
\* those the failed sub-step left
StoppedAtFailure ==
  /\ ~last.result.raised
  /\ ~last.result.success
  /\ last.after = LastWalk.st.hist
  /\ last.used = LastWalk.st.used
  /\ last.step.type = "loop" =>
       last.result.message = "Loop iteration " \o ToString(LastWalk.iteration)
                             \o " failed: " \o LastWalk.sub.message
  /\ last.step.type = "branch" =>
       /\ last.result.message = LastWalk.sub.message
       /\ last.result.branchPath = Str(last.step.branches[FirstMatching].label)

\* the failed sub-step has sub-steps of its own
HasSubSteps(step) == step.type \in {"conditional", "branch", "loop"}

\* C26: when a sub-step of a branch or of a loop iteration fails, the branch
\* or loop returns a non-success result at once, the loop's message names the
\* iteration, nothing is executed after the failed sub-step, and the returned
\* item is the running item of the sub-steps that succeeded before it.
C26_SubStepFailureReturnsRunningItem ==
  SubStepFailed => StoppedAtFailure /\ last.result.item = LastWalk.item

\* C26 with the item the code returns: the item of the result of the failed
\* sub-step, which is the running item unless the failed sub-step has
\* sub-steps of its own.
C26_SubStepFailureReturnsItsItem ==
  SubStepFailed =>
    /\ StoppedAtFailure
    /\ last.result.item = LastWalk.sub.item
    /\ ~HasSubSteps(LastWalk.step) => last.result.item = LastWalk.item

\* a loop failed in its second iteration and returned the item of the first
C26_Witness ==
  /\ SubStepFailed
  /\ last.step.type = "loop"
  /\ LastWalk.iteration = 2
  /\ ~HasSubSteps(LastWalk.step)
  /\ last.result.item = LastWalk.item
  /\ last.result.item # last.item
  /\ Len(last.after) > Len(last.history)

\* a branch failed at its second sub-step, a linear step, and returned the
\* item of the first
C26_BranchFailedLate ==
  /\ SubStepFailed
  /\ last.step.type = "branch"
  /\ Len(last.step.branches[FirstMatching].steps) >= 2
  /\ LastWalk.step = last.step.branches[FirstMatching].steps[2]
  /\ ~HasSubSteps(LastWalk.step)
  /\ last.result.item = LastWalk.item
  /\ last.result.item # last.item

\* a failed loop inside a branch returned an item its own sub-steps changed
C26_FailedSubStepContributed ==
  /\ SubStepFailed
  /\ HasSubSteps(LastWalk.step)
  /\ last.result.item # LastWalk.item

---------------------------------------------------------------------------
(* Properties of the iteration cap of a loop step, checked under SpecCall.  *)

\* the number of times the last executeStep call logged the step id
Runs(id) == Cardinality({k \in DOMAIN NewEntries : NewEntries[k].stepId = id})

\* no linear step of the body of the loop was executed more than cap times
BodyRunsAtMost(cap) ==
  \A k \in DOMAIN last.step.steps :
    last.step.steps[k].type = "linear" => Runs(last.step.steps[k].id) <= cap

\* C27: one execution of a loop step that declares maxIterations = m, m >= 0,
\* runs its body at most m times, so not at all when m = 0; a loop step that
\* declares none runs it at most options.maxLoopIterations times, or at most
\* 10 times when the options declare none either.
C27_BodyRunsAtMostDeclared ==
  SteppedOn("loop") => BodyRunsAtMost(DeclaredLoopCap(last.step, last.options))

\* C27 for every declaration but maxIterations = 0, which the code passes over
C27_BodyRunsAtMostNonZeroDeclared ==
  SteppedOn("loop") =>
    /\ BodyRunsAtMost(LoopCap(last.step, last.options))
    /\ last.step.maxIterations # Num(0) =>
         LoopCap(last.step, last.options) = DeclaredLoopCap(last.step, last.options)
    /\ last.step.maxIterations = Num(0) =>
         LoopCap(last.step, last.options) =
           DeclaredLoopCap([last.step EXCEPT !.maxIterations = Undef], last.options)

\* a loop step that declares maxIterations = 0 ran its body
C27_ZeroCapRan ==
  /\ SteppedOn("loop")
  /\ last.step.maxIterations = Num(0)
  /\ \E k \in DOMAIN last.step.steps : Runs(last.step.steps[k].id) > 0

\* a loop step stopped at its declared cap with its condition still true
C27_DeclaredCapReached ==
  /\ SteppedOn("loop")
  /\ last.step.maxIterations = Num(2)
  /\ last.result.shouldLoop = Bool(TRUE)
  /\ \E k \in DOMAIN last.step.steps : Runs(last.step.steps[k].id) = 2

\* a loop step without maxIterations ran its body 10 times
C27_DefaultCapReached ==
  /\ SteppedOn("loop")
  /\ last.step.maxIterations = Undef
  /\ last.options.maxLoopIterations = Undef
  /\ \E k \in DOMAIN last.step.steps : Runs(last.step.steps[k].id) = DefaultMaxLoopIterations

---------------------------------------------------------------------------
(* Properties of the operators equals and notEquals, checked under SpecCall. *)

EvaluatedWith(operator) ==
  /\ last.op = "evaluate"
  /\ last.condition.operator = operator
  /\ last.condition.target # <<>>

\* the value the target of the last evaluate call resolves to
Resolved == getTargetValue(last.condition.target, last.item)

\* what equals gives on the input of the last evaluate call
AsEquals == evaluate([last.condition EXCEPT !.operator = "equals"], last.item)

\* notEquals raises when equals raises and is its negation otherwise
NotEqualsNegates ==
  EvaluatedWith("notEquals") =>
    /\ last.result.thrown = AsEquals.thrown
    /\ ~last.result.thrown => last.result.val = ~AsEquals.val

\* C28: equals compares the resolved target value with condition.value by
\* type-coercing equality, so that a resolved number equals the string that
\* spells it, and notEquals is the negation of equals on every input.
C28_EqualsCoerces ==
  /\ EvaluatedWith("equals") =>
       ~last.result.thrown /\ last.result.val = LooseEquals(Resolved, last.condition.value)
  /\ NotEqualsNegates

\* C28 with the comparison the code makes: equals is true exactly when the
\* resolved value and condition.value are primitives of one type and the same
\* value.
C28_EqualsIsIdentity ==
  /\ EvaluatedWith("equals") =>
       /\ ~last.result.thrown
       /\ last.result.val = (Resolved = last.condition.value /\ Resolved # Obj)
  /\ NotEqualsNegates

\* the number 3 was compared with the string "3" and found different
C28_Witness ==
  /\ EvaluatedWith("equals")
  /\ Resolved = Num(3)
  /\ last.condition.value = Str("3")
  /\ ~last.result.val

\* the number 3 was compared with the number 3 and found equal
C28_SameTypeEqual ==
  /\ EvaluatedWith("equals")
  /\ Resolved = Num(3)
  /\ last.condition.value = Num(3)
  /\ last.result.val

\* notEquals found the number 3 and the string "3" different
C28_NotEqualsAcrossTypes ==
  /\ EvaluatedWith("notEquals")
  /\ Resolved = Num(3)
  /\ last.condition.value = Str("3")
  /\ last.result.val

---------------------------------------------------------------------------
(* Properties of the declarative path of executeAction, checked under       *)
(* SpecCall.                                                                *)

\* the last call was an executeAction of the Action Executor that resolved no
\* handler: the action names none, or one that the handler table does not
\* have, and its preconditions hold
OnDeclarativePath ==
  /\ last.op = "executorExecuteAction"
  /\ last.action.customHandler \notin customHandlers \cup InheritedMembers
  /\ \A j \in DOMAIN last.action.preconditions :
       evaluate(last.action.preconditions[j], last.item) = Ok(TRUE)

\* every condition of every outcome evaluates on the input item
OutcomeConditionsEvaluate ==
  \A k \in DOMAIN last.action.outcomes :
    \A j \in DOMAIN last.action.outcomes[k].conditions :
      ~evaluate(last.action.outcomes[k].conditions[j], last.item).thrown

\* the outcomes without conditions or whose conditions are all true on the
\* input item
Eligible ==
  { k \in DOMAIN last.action.outcomes :
      \/ last.action.outcomes[k].absent
      \/ \A j \in DOMAIN last.action.outcomes[k].conditions :
           evaluate(last.action.outcomes[k].conditions[j], last.item).val }

\* C29: on the declarative path, with outcome conditions that evaluate, the
\* selected outcome is one without conditions or whose conditions are all
\* true on the item executeAction was given, and the returned item is that
\* item with the changes of the selected outcome; when there is no such
\* outcome executeAction fails with 'No valid outcomes for action <name>'.
C29_SelectedOutcomeIsEligible ==
  (OnDeclarativePath /\ OutcomeConditionsEvaluate) =>
    IF Eligible = {}
      THEN /\ last.result.thrown
           /\ last.result.msg = "No valid outcomes for action " \o last.action.name
      ELSE /\ ~last.result.thrown
           /\ last.result.outcome \in Eligible
           /\ last.result.item =
                applyChanges(last.item, last.action.outcomes[last.result.outcome].changes,
                             last.id).item

\* of two outcomes eligible on a rare corrupted item the second was selected,
\* although its change makes the condition of the first false
C29_Witness ==
  /\ OnDeclarativePath
  /\ Eligible = {1, 2}
  /\ ~last.action.outcomes[1].absent
  /\ last.result.outcome = 2
  /\ last.item.isCorrupted
  /\ last.result.item # last.item

\* one of two outcomes was eligible and was selected
C29_OnlyEligibleSelected ==
  /\ OnDeclarativePath
  /\ OutcomeConditionsEvaluate
  /\ Len(last.action.outcomes) = 2
  /\ Eligible = {2}
  /\ ~last.result.thrown
  /\ last.result.outcome = 2

\* an action with outcomes none of which was eligible failed
C29_NoneEligible ==
  /\ OnDeclarativePath
  /\ OutcomeConditionsEvaluate
  /\ Len(last.action.outcomes) = 2
  /\ Eligible = {}
  /\ last.result.thrown

---------------------------------------------------------------------------
(* Properties of the changes of an outcome, checked under SpecCall.         *)

\* the last call applied the one outcome of an action without handler
Changed ==
  /\ last.op = "executorExecuteAction"
  /\ last.action.id = "changing"
  /\ ~last.result.thrown

\* the first change of that outcome
TheChange == last.action.outcomes[1].changes[1]

ChangedBy(type) == Changed /\ TheChange.type = type

\* the modifier the claim has an addModifier change append
ClaimedModifier ==
  [id |-> last.id, name |-> TheChange.target,
   tier |-> IF TheChange.tier # 0 THEN TheChange.tier ELSE 1, type |-> "prefix"]

\* exactly one modifier was appended, the claimed one, under an id no modifier
\* of the item had; nothing else changed
OneModifierAppended ==
  /\ last.result.item = [last.item EXCEPT !.modifiers = Append(@, ClaimedModifier)]
  /\ \A k \in DOMAIN last.item.modifiers : last.item.modifiers[k].id # ClaimedModifier.id

\* the changes that need an id: without it they change nothing, with it the
\* modifier or socket of that id is gone
RemovalsNeedId ==
  /\ ChangedBy("removeModifier") =>
       IF TheChange.modifierId = 0 THEN last.result.item = last.item
       ELSE last.result.item =
              [last.item EXCEPT !.modifiers =
                 SelectSeq(@, LAMBDA m : m.id # TheChange.modifierId)]
  /\ (ChangedBy("addSocket") /\ Len(last.action.outcomes[1].changes) = 2) =>
       Len(last.result.item.sockets) =
         Len(last.item.sockets)
         + (IF last.action.outcomes[1].changes[2].socketId = 0 THEN 1 ELSE 0)

\* a modifyProperty change with a target sets the property of that name, if
\* the item has one, whatever ids the change carries; without a target it
\* changes nothing
PropertyNeedsTarget ==
  ChangedBy("modifyProperty") =>
    IF TheChange.target # "" /\ TheChange.target \in DOMAIN last.item.properties
      THEN last.result.item =
             [last.item EXCEPT !.properties[TheChange.target] = TheChange.value]
      ELSE last.result.item = last.item

\* C30: an addModifier change appends exactly one fresh modifier with the name
\* in target and the tier in value, tier 1 without one, whether or not the
\* change carries an id; a removeModifier or removeSocket change takes effect
\* only with an id, a modifyProperty change with a target.
C30_AddModifierNeedsNoId ==
  /\ ChangedBy("addModifier") => OneModifierAppended
  /\ RemovalsNeedId
  /\ PropertyNeedsTarget

\* C30 for the changes the code applies: an addModifier change appends the
\* modifier only when it carries a modifierId, and changes nothing without
\* one.
C30_AddModifierWithId ==
  /\ ChangedBy("addModifier") =>
       IF TheChange.modifierId # 0 THEN OneModifierAppended
       ELSE last.result.item = last.item
  /\ RemovalsNeedId
  /\ PropertyNeedsTarget

\* an addModifier change without id left the item as it was
C30_NothingAppended ==
  /\ ChangedBy("addModifier")
  /\ TheChange.modifierId = 0
  /\ TheChange.tier = 2
  /\ last.result.item = last.item

\* an addModifier change with an id appended a modifier of tier 2
C30_AppendedWithId ==
  /\ ChangedBy("addModifier")
  /\ TheChange.modifierId # 0
  /\ Len(last.result.item.modifiers) = Len(last.item.modifiers) + 1
  /\ last.result.item.modifiers[Len(last.result.item.modifiers)].tier = 2

\* a removeModifier change with an id removed a modifier
C30_RemovedWithId ==
  /\ ChangedBy("removeModifier")
  /\ Len(last.result.item.modifiers) < Len(last.item.modifiers)

\* a modifyProperty change without id set a property
C30_PropertySet ==
  /\ ChangedBy("modifyProperty")
  /\ TheChange.modifierId = 0
  /\ last.result.item.properties["p"] = Num(1)
  /\ last.item.properties["p"] # Num(1)

---------------------------------------------------------------------------
(* Properties of the changes applyChanges has no effect for, checked under  *)
(* SpecCall.                                                                *)

\* the types applyChanges has an effect for
EffectiveTypes ==
  {"addModifier", "removeModifier", "modifyProperty", "addSocket", "removeSocket",
   "linkSockets", "corrupt"}

\* the last call applied an outcome that holds a change of another type
Skipped ==
  /\ last.op = "executorExecuteAction"
  /\ last.action.id = "skipping"

SkippedChanges == last.action.outcomes[1].changes

\* the changes of the outcome without those of another type, in their order
OtherChanges == SelectSeq(SkippedChanges, LAMBDA c : c.type \in EffectiveTypes)

\* C31: a change of type 'custom', 'reroll' or of an unknown type raises no
\* error and alters nothing: the item returned is the item with the other
\* changes of the list applied in declared order, and the input item when
\* there is no other change.
C31_InertChangeIsSkipped ==
  Skipped =>
    /\ ~last.result.thrown
    /\ last.result.item =
         AfterChanges(last.item, OtherChanges, Len(OtherChanges), last.id).item
    /\ OtherChanges = <<>> => last.result.item = last.item

\* a 'reroll' change between two addModifier changes: both modifiers were
\* appended in declared order behind the modifiers the item had
C31_Witness ==
  /\ Skipped
  /\ Len(SkippedChanges) = 3
  /\ SkippedChanges[2].type = "reroll"
  /\ last.item.modifiers # <<>>
  /\ Len(last.result.item.modifiers) = Len(last.item.modifiers) + 2
  /\ last.result.item.modifiers[Len(last.item.modifiers) + 1].name = "First"
  /\ last.result.item.modifiers[Len(last.item.modifiers) + 2].name = "Second"
  /\ last.result.item.modifiers[1] = last.item.modifiers[1]

\* a 'custom' change that names an inherited member was skipped in front of
\* the other changes
C31_InheritedCustomSkipped ==
  /\ Skipped
  /\ Len(SkippedChanges) = 3
  /\ SkippedChanges[1] = Inert("custom", "toString")
  /\ Len(last.result.item.modifiers) = Len(last.item.modifiers) + 2

\* a change of an unknown type alone left the item as it was
C31_UnknownAlone ==
  /\ Skipped
  /\ SkippedChanges = <<Inert("teleport", "")>>
  /\ last.result.item = last.item

---------------------------------------------------------------------------
(* Properties of the seeded action alchemy_orb, checked under SpecCall.     *)

Alchemized == last.op = "executeAction" /\ last.actionId = "alchemy_orb"

\* the number of modifiers of the item that have the type
Typed(item, type) == Cardinality({k \in DOMAIN item.modifiers : item.modifiers[k].type = type})

\* C32: executeAction('alchemy_orb', item) on a normal item that is not
\* corrupted returns a rare item that keeps none of the modifiers it had and
\* has 4 to 6 modifiers, at most 3 of them prefixes and at most 3 suffixes,
\* everything else as before, under every draw; on a corrupted item or an
\* item that is not normal it fails with the precondition-not-met error.
C32_AlchemyOrbMakesRare ==
  Alchemized =>
    IF last.item.rarity = "normal" /\ ~last.item.isCorrupted
      THEN /\ ~last.result.thrown
           /\ last.result.item.rarity = "rare"
           /\ \A k \in DOMAIN last.result.item.modifiers :
                \A j \in DOMAIN last.item.modifiers :
                  last.item.modifiers[j].id # last.result.item.modifiers[k].id
           /\ Len(last.result.item.modifiers) \in 4 .. 6
           /\ Typed(last.result.item, "prefix") <= 3
           /\ Typed(last.result.item, "suffix") <= 3
           /\ Typed(last.result.item, "prefix") + Typed(last.result.item, "suffix")
                = Len(last.result.item.modifiers)
           /\ [last.result.item EXCEPT !.modifiers = <<>>, !.rarity = "normal"]
                = [last.item EXCEPT !.modifiers = <<>>]
      ELSE /\ last.result.thrown
           /\ last.result.msg = "Cannot execute action Alchemy Orb: preconditions not met"
           /\ last.result.item = last.item

\* a normal item with three modifiers became a rare item with six others,
\* under the largest draws
C32_Witness ==
  /\ Alchemized
  /\ last.item.rarity = "normal"
  /\ Len(last.item.modifiers) = 3
  /\ ~last.result.thrown
  /\ last.oracle[1] = RandDen - 1
  /\ last.oracle[2] = RandDen - 1
  /\ Typed(last.result.item, "prefix") = 3
  /\ Typed(last.result.item, "suffix") = 3

\* four modifiers, three of them prefixes
C32_FourWithThreePrefixes ==
  /\ Alchemized
  /\ ~last.result.thrown
  /\ Len(last.result.item.modifiers) = 4
  /\ Typed(last.result.item, "prefix") = 3

\* a rare item was refused
C32_RareRefused ==
  /\ Alchemized
  /\ last.item.rarity = "rare"
  /\ ~last.item.isCorrupted
  /\ last.result.thrown

---------------------------------------------------------------------------
(* Properties of moveStep and addStep, checked under SpecEdit.              *)

\* the list without its k-th element
Without(list, k) ==
  [j \in 1 .. Len(list) - 1 |-> IF j < k THEN list[j] ELSE list[j + 1]]

\* the last operation, of that name, changed the steps of a guide
StepsEditedBy(name) ==
  /\ EditedBy(name)
  /\ last.result = Bool(TRUE)
  /\ last.args[1] \in DOMAIN last.before
  /\ "steps" \in DOMAIN last.before[last.args[1]]

StepsBefore == last.before[last.args[1]].steps
StepsAfter == guides[last.args[1]].steps

\* the first step with the id the operation was given
FirstWithId == CHOOSE k \in DOMAIN StepsBefore :
                 /\ StepsBefore[k].id = last.args[2]
                 /\ \A j \in 1 .. k - 1 : StepsBefore[j].id # last.args[2]

\* the index, from 0, the claim has moveStep put the step at
MoveTarget ==
  IF last.args[3] > Len(StepsBefore) - 1 THEN Len(StepsBefore) - 1
  ELSE IF last.args[3] < 0 THEN 0
  ELSE last.args[3]

\* the index, from 0, the claim has addStep put the step at
AddTarget ==
  IF last.args[3].t = "num" /\ last.args[3].v >= 0 /\ last.args[3].v <= Len(StepsBefore)
    THEN last.args[3].v
    ELSE Len(StepsBefore)

\* C33: moveStep(guideId, stepId, p) on a guide of n steps leaves n steps, the
\* moved step at index max(0, min(p, n - 1)) and the other steps in the order
\* they had; addStep(guideId, step, p) leaves n + 1 steps, the new step at
\* index p when 0 <= p <= n and at the end otherwise, and the steps the guide
\* had in the order they had.
C33_MoveClampsAddInserts ==
  /\ StepsEditedBy("moveStep") =>
       /\ Len(StepsAfter) = Len(StepsBefore)
       /\ StepsAfter[MoveTarget + 1] = StepsBefore[FirstWithId]
       /\ Without(StepsAfter, MoveTarget + 1) = Without(StepsBefore, FirstWithId)
  /\ StepsEditedBy("addStep") =>
       /\ Len(StepsAfter) = Len(StepsBefore) + 1
       /\ StepsAfter[AddTarget + 1] = last.args[2]
       /\ Without(StepsAfter, AddTarget + 1) = StepsBefore

\* the first of three steps was moved to position 9 and is now the last
C33_Witness ==
  /\ StepsEditedBy("moveStep")
  /\ Len(StepsBefore) = 3
  /\ FirstWithId = 1
  /\ last.args[3] = 9
  /\ StepsAfter = <<StepsBefore[2], StepsBefore[3], StepsBefore[1]>>

\* a step was moved to position -1 and is now the first
C33_MovedToFront ==
  /\ StepsEditedBy("moveStep")
  /\ FirstWithId = 2
  /\ last.args[3] = -1
  /\ StepsAfter[1] = StepsBefore[2]

\* a step was inserted at position 1 of three steps
C33_InsertedInside ==
  /\ StepsEditedBy("addStep")
  /\ Len(StepsBefore) = 3
  /\ last.args[3] = Num(1)
  /\ StepsAfter = <<StepsBefore[1], last.args[2], StepsBefore[2], StepsBefore[3]>>

\* a step added at position 9 of three steps was appended
C33_AppendedBeyondEnd ==
  /\ StepsEditedBy("addStep")
  /\ Len(StepsBefore) = 3
  /\ last.args[3] = Num(9)
  /\ StepsAfter[4] = last.args[2]

---------------------------------------------------------------------------
(* Properties of the step operations on ids that name nothing, checked      *)
(* under SpecEdit.                                                          *)

StepOperations == {"addStep", "removeStep", "updateStep", "moveStep"}

\* the last operation was a step operation with a guide id no guide is stored
\* under
OnUnknownGuide ==
  /\ last.op = "edit"
  /\ last.name \in StepOperations
  /\ last.args[1] \notin DOMAIN last.before

\* the last operation was given the id of a stored guide and a step id that
\* no step of the guide has
OnUnknownStep ==
  /\ last.op = "edit"
  /\ last.name \in StepOperations \ {"addStep"}
  /\ last.args[1] \in DOMAIN last.before
  /\ "steps" \in DOMAIN last.before[last.args[1]]
  /\ \A k \in DOMAIN last.before[last.args[1]].steps :
       last.before[last.args[1]].steps[k].id # last.args[2]

\* the operation returned false and the store is as it was
ReturnedFalse ==
  /\ ~last.thrown
  /\ last.result = Bool(FALSE)
  /\ guides = last.before

\* C34: a step operation with an unknown guide id, and removeStep, updateStep
\* and moveStep with a step id the guide has not, return false and leave
\* every stored guide as it was, steps and updatedAt included.
C34_UnknownIdsReturnFalse ==
  /\ OnUnknownGuide => ReturnedFalse
  /\ OnUnknownStep => ReturnedFalse

\* C34 for the guide ids that name no inherited member
C34_ReturnFalseUnlessInherited ==
  /\ (OnUnknownGuide /\ last.args[1] \notin InheritedMembers) => ReturnedFalse
  /\ OnUnknownStep => ReturnedFalse
  /\ (OnUnknownGuide /\ last.args[1] \in InheritedMembers) =>
       (last.thrown /\ guides = last.before)

\* addStep with the guide id 'toString' raised
C34_InheritedGuideRaised ==
  /\ OnUnknownGuide
  /\ last.name = "addStep"
  /\ last.args[1] = "toString"
  /\ last.thrown

\* moveStep with a step id the guide has not returned false after an earlier
\* operation had changed the guide
C34_UnknownStepRefused ==
  /\ OnUnknownStep
  /\ last.name = "moveStep"
  /\ last.edits = 2
  /\ last.before[last.args[1]].steps # <<>>
  /\ ReturnedFalse

\* removeStep with an unknown guide id returned false
C34_UnknownGuideRefused ==
  /\ OnUnknownGuide
  /\ last.name = "removeStep"
  /\ last.args[1] = MissingGuideId
  /\ ReturnedFalse

---------------------------------------------------------------------------
(* Properties of the step history of an execution state, checked under Spec. *)

\* the history of the state threads one item from the starting item to
\* currentItem, ids ignored
Consistent(state) ==
  /\ state.stepHistory # <<>> =>
       /\ Content(state.stepHistory[1].itemBefore) = Content(StartedFrom)
       /\ Content(state.stepHistory[Len(state.stepHistory)].itemAfter)
            = Content(state.currentItem)
  /\ \A k \in 1 .. Len(state.stepHistory) - 1 :
       Content(state.stepHistory[k + 1].itemBefore)
         = Content(state.stepHistory[k].itemAfter)

\* an execution state exists
Executing == es # NoState /\ last.op \in {"createExecutionState", "executeGuide", "executeNextStep"}

\* C35: after any sequence of executeNextStep calls on an execution state the
\* first entry of stepHistory starts from the content of the starting item,
\* every later entry starts from the content the entry before it ended with,
\* and the last entry ends with the content of currentItem.
C35_HistoryIsConsistent == Executing => Consistent(es)

\* C35 for the calls that succeed or add no entry: they keep a consistent
\* history consistent
C35_SuccessKeepsHistoryConsistent ==
  ( /\ last.op = "executeNextStep"
    /\ Consistent(last.before)
    /\ last.result.success \/ es.stepHistory = last.before.stepHistory )
  => Consistent(es)

\* a step failed after sub-steps of it had succeeded: their entries are in the
\* history and currentItem is the item from before the call
C35_FailureLeftEntries ==
  /\ last.op = "executeNextStep"
  /\ ~last.result.success
  /\ Consistent(last.before)
  /\ Len(es.stepHistory) > Len(last.before.stepHistory) + 1
  /\ es.currentItem = last.before.currentItem
  /\ ~Consistent(es)

\* a consistent history of several entries after two successful calls
C35_ConsistentReached ==
  /\ last.op = "executeNextStep"
  /\ last.result.success
  /\ es.currentStepIndex = 2
  /\ Len(es.stepHistory) >= 3
  /\ Consistent(es)

---------------------------------------------------------------------------
(* Properties of a top-level loop step within one executeGuide run, checked
   under Spec. *)

\* executeGuide is in its while loop or has returned
GuideRunning == run.pc \in {"loop", "done"}

\* the positions of the loop steps among the steps of the guide being run
TopLevelLoops ==
  {k \in DOMAIN guides[es.guideId].steps : guides[es.guideId].steps[k].type = "loop"}

\* the number of entries the run has logged for the step id
LoggedInRun(id) ==
  Cardinality({j \in DOMAIN es.stepHistory : es.stepHistory[j].stepId = id})

\* no linear step of the body of the loop was executed more than n times in the run
BodyLoggedAtMost(step, n) ==
  \A b \in DOMAIN step.steps :
    step.steps[b].type = "linear" => LoggedInRun(step.steps[b].id) <= n

\* C36: within one executeGuide run the body of a top-level loop step that
\* declares maxIterations is executed at most maxIterations times in total.
C36_BodyRunsAtMostCapInRun ==
  GuideRunning =>
    \A k \in TopLevelLoops :
      guides[es.guideId].steps[k].maxIterations # Undef =>
        BodyLoggedAtMost(guides[es.guideId].steps[k],
                         guides[es.guideId].steps[k].maxIterations.v)

\* C36 as the code has it: every executeNextStep call of the run executes the
\* body at most maxIterations || options.maxLoopIterations || 10 times, and the
\* run calls it on the same loop step again while the result asks to loop, so
\* the body is executed at most that cap times the number of results of the run
C36_BodyRunsAtMostCapPerResult ==
  GuideRunning =>
    \A k \in TopLevelLoops :
      BodyLoggedAtMost(guides[es.guideId].steps[k],
                       LoopCap(guides[es.guideId].steps[k], run.options) * Len(run.results))

\* a run went beyond a loop step of cap 2 after executing its body 3 times, in
\* two executeNextStep calls
C36_Witness ==
  /\ run.pc = "done"
  /\ run.success
  /\ es.guideId = "loop2"
  /\ guides["loop2"].steps[1].maxIterations = Num(2)
  /\ LoggedInRun("b2") = 3
  /\ Len(run.results) = 3
  /\ run.results[1].shouldLoop = Bool(TRUE)

\* a run executed the body of a loop step as often as the cap times its results
C36_CapTimesResultsReached ==
  /\ GuideRunning
  /\ es.guideId = "loop2"
  /\ Len(run.results) = 1
  /\ LoggedInRun("b2") = 2

\* a run went beyond a loop step whose condition turned false below the cap
C36_EndedBelowCap ==
  /\ run.pc = "done"
  /\ es.guideId = "loop5"
  /\ es.currentStepIndex = 2
  /\ LoggedInRun("a2") = 3

---------------------------------------------------------------------------
(* Properties of the step cursor, checked under Spec, where no guide is
   edited. *)

\* the steps of the guide the execution state runs
StepsOfRun == guides[es.guideId].steps

\* C37: during executeGuide and during any sequence of executeNextStep calls
\* on an unedited guide currentStepIndex stays within 0 .. length(steps), never
\* decreases and changes by at most 1 per call, and no result of the step
\* executor carries a nextStepIndex.
C37_CursorMovesForwardByOne ==
  /\ es # NoState =>
       /\ es.currentStepIndex >= 0
       /\ es.guideId \in DOMAIN guides => es.currentStepIndex <= Len(StepsOfRun)
       /\ es.guideId \notin DOMAIN guides => es.currentStepIndex = 0
  /\ last.op = "executeNextStep" =>
       /\ last.result.nextStepIndex = Undef
       /\ es.currentStepIndex \in
            {last.before.currentStepIndex, last.before.currentStepIndex + 1}

\* a call moved the cursor from the last step of a guide of several steps to
\* the end
C37_Witness ==
  /\ last.op = "executeNextStep"
  /\ es.guideId \in DOMAIN guides
  /\ Len(StepsOfRun) >= 2
  /\ last.before.currentStepIndex = Len(StepsOfRun) - 1
  /\ es.currentStepIndex = Len(StepsOfRun)

\* a successful call of an executeGuide run held the cursor on a loop step
C37_HeldInRun ==
  /\ run.pc = "loop"
  /\ last.op = "executeNextStep"
  /\ last.result.success
  /\ last.result.shouldLoop = Bool(TRUE)
  /\ es.currentStepIndex = last.before.currentStepIndex

\* a call at the end of the guide left the cursor there
C37_StayedAtEnd ==
  /\ last.op = "executeNextStep"
  /\ es.guideId \in DOMAIN guides
  /\ last.before.currentStepIndex = Len(StepsOfRun)
  /\ es.currentStepIndex = Len(StepsOfRun)
  /\ Len(StepsOfRun) > 0

---------------------------------------------------------------------------
(* Sequences of the seeded orbs: the host applies chaos_orb and alchemy_orb
   through the registry to the newest item it holds and keeps every item a
   successful execution returned. heap is the list of those items, the
   starting item first. *)

\* the number of executeAction calls of one sequence
MaxOrbs == 3

\* the items a sequence starts from: those of the candidates validateItem accepts
OrbItems ==
  { item \in
      { WorkItem("normal", FALSE, <<>>, <<>>),
        WorkItem("normal", FALSE, <<>>, <<Socket(7, <<8>>), Socket(8, <<7>>)>>),
        WorkItem("rare", FALSE, <<Life, Extra(6)>>,
                 <<Socket(7, <<8>>), Socket(8, <<7>>), Socket(9, <<>>)>>),
        WorkItem("rare", FALSE,
                 <<createModifier(5, "Random Prefix 1", 1, "prefix"),
                   createModifier(6, "Alch Suffix 1", 1, "suffix")>>, <<>>),
        WorkItem("rare", TRUE, <<Life>>, <<>>),
        WorkItem("magic", FALSE, <<Life>>, <<Socket(7, <<>>)>>),
        WorkItem("normal", FALSE, <<Life>>, <<>>),
        WorkItem("rare", FALSE, <<Life>>, <<Socket(7, <<8>>)>>) } :
      validateItem(item).isValid }

InitOrbs ==
  /\ guides = [id \in StoredGuideIds |-> CHOOSE g \in StoredGuides : g.id = id]
  /\ es = NoState
  /\ run = IdleRun
  /\ uuid = FirstUuid
  /\ last = NoCall
  /\ heap \in {<<item>> : item \in OrbItems}
  /\ pair = <<>>

\* the number of orbs used so far, and of successful alchemy_orb executions
OrbsUsed == IF last.op = "orb" THEN last.orbs ELSE 0
AlchemyOrbsSucceeded == IF last.op = "orb" THEN last.alchemies ELSE 0

\* the effect of actionRegistry.executeAction(actionId, newest item) that
\* returned or threw r
OrbUsed(actionId, r) ==
  /\ heap' = IF r.thrown THEN heap ELSE Append(heap, r.item)
  /\ uuid' = r.uuid
  /\ last' = [op |-> "orb", actionId |-> actionId, item |-> heap[Newest], result |-> r,
              orbs |-> OrbsUsed + 1,
              alchemies |-> AlchemyOrbsSucceeded
                            + (IF actionId = "alchemy_orb" /\ ~r.thrown THEN 1 ELSE 0)]

UseOrb(actionId) ==
  /\ OrbsUsed < MaxOrbs
  /\ \E oracle \in OraclesFor([op |-> "executeAction", actionId |-> actionId,
                                 item |-> heap[Newest]]) :
       OrbUsed(actionId, registryExecuteAction(actionId, heap[Newest], uuid, oracle, 0))
  /\ UNCHANGED <<guides, es, run, pair>>

UseChaosOrb == UseOrb("chaos_orb")

UseAlchemyOrb == UseOrb("alchemy_orb")

NextOrbs ==
  \/ UseChaosOrb
  \/ UseAlchemyOrb

SpecOrbs == InitOrbs /\ [][NextOrbs]_vars

---------------------------------------------------------------------------
(* Properties of sequences of the seeded orbs, checked under SpecOrbs. *)

\* the counts are within the maximum of the rarity and no name occurs twice
WithinLimits(item) ==
  /\ getPrefixCount(item) <= getMaxModifiers(item).prefix
  /\ getSuffixCount(item) <= getMaxModifiers(item).suffix
  /\ \A i, j \in DOMAIN item.modifiers :
       item.modifiers[i].name = item.modifiers[j].name => i = j

\* C38: every item a sequence of successful chaos_orb and alchemy_orb
\* executions reaches from an item that passes validateItem passes
\* validateItem too: its prefix and suffix counts are within the maximum of
\* its rarity, no modifier name occurs twice, its sockets are those of the
\* starting item; and alchemy_orb succeeds at most once in the sequence.
C38_OrbsKeepItemValid ==
  /\ \A k \in DOMAIN heap :
       /\ validateItem(heap[k]).isValid
       /\ WithinLimits(heap[k])
       /\ heap[k].sockets = heap[1].sockets
  /\ AlchemyOrbsSucceeded <= 1

\* a sequence of an alchemy_orb and two chaos_orb executions succeeded on an
\* item with sockets, the last one giving 3 prefixes and 3 suffixes
C38_Witness ==
  /\ Len(heap) = MaxOrbs + 1
  /\ heap[1].sockets # <<>>
  /\ heap[1].rarity = "normal"
  /\ AlchemyOrbsSucceeded = 1
  /\ last.actionId = "chaos_orb"
  /\ getPrefixCount(heap[Newest]) = 3
  /\ getSuffixCount(heap[Newest]) = 3

\* a second alchemy_orb was refused after the first had succeeded
C38_SecondAlchemyRefused ==
  /\ last.op = "orb"
  /\ last.actionId = "alchemy_orb"
  /\ last.result.thrown
  /\ AlchemyOrbsSucceeded = 1

\* a chaos_orb succeeded on an item that carried one of the names it gives
C38_RerolledSameName ==
  /\ last.op = "orb"
  /\ last.actionId = "chaos_orb"
  /\ ~last.result.thrown
  /\ \E i \in DOMAIN last.item.modifiers, j \in DOMAIN heap[Newest].modifiers :
       last.item.modifiers[i].name = heap[Newest].modifiers[j].name

---------------------------------------------------------------------------
(* Properties of validateGuide on nested steps, checked under SpecStore. *)

\* the steps nested directly in a step
SubStepsOf(step) ==
  CASE step.type = "conditional" -> {step.trueStep, step.falseStep} \ {Undef}
    [] step.type = "branch" -> UNION {Range(step.branches[k].steps) : k \in DOMAIN step.branches}
    [] step.type = "loop" -> Range(step.steps)
    [] OTHER -> {}

\* the step or a step nested in it at any depth lacks a required member
RECURSIVE HasDefect(_)
HasDefect(step) == Defects(step) > 0 \/ \E sub \in SubStepsOf(step) : HasDefect(sub)

\* C39: validateGuide reports an error for a step that lacks a required
\* member at any nesting depth, so a guide it accepts has no such step anywhere.
C39_DefectAtAnyDepthReported ==
  last.op = "validateGuide" =>
    ((\E k \in DOMAIN last.guide.steps : HasDefect(last.guide.steps[k]))
       => ~last.result.isValid)

\* C39 for the steps of guide.steps themselves: validateGuide accepts a guide
\* exactly when none of them lacks a required member, whatever is nested in them
C39_TopLevelDefectReported ==
  last.op = "validateGuide" =>
    (last.result.isValid <=>
       \A k \in DOMAIN last.guide.steps : Defects(last.guide.steps[k]) = 0)

\* validateGuide accepted a guide whose loop body is a linear step without
\* actionId
C39_DefectInLoopBodyAccepted ==
  /\ last.op = "validateGuide"
  /\ last.result.isValid
  /\ \E k \in DOMAIN last.guide.steps :
       /\ last.guide.steps[k].type = "loop"
       /\ last.guide.steps[k].steps = <<LinearStep("b", "")>>

\* validateGuide rejected a guide for a step of guide.steps without actionId
C39_TopLevelDefectRejected ==
  /\ last.op = "validateGuide"
  /\ ~last.result.isValid
  /\ \E k \in DOMAIN last.guide.steps : last.guide.steps[k] = LinearStep("v", "")

---------------------------------------------------------------------------
(* Properties of the selection of an outcome of weight 0, checked under
   SpecCall. *)

\* the last call selected among outcomes of a positive total weight
SelectedByWeight ==
  /\ last.op = "selectOutcome"
  /\ Cumulative(last.outcomes, Len(last.outcomes)) > 0

\* the weight of the outcome the last call selected
SelectedWeight == last.outcomes[last.result.k].probability

\* C40: when the total weight is positive an outcome of weight 0 is never
\* selected, whatever the draw in [0, total), the draw 0 included, and
\* wherever the outcome stands in the list.
C40_ZeroWeightNeverSelected == SelectedByWeight => SelectedWeight # 0

\* C40 as the code has it: an outcome of weight 0 is selected exactly when it
\* is the first of the list and the draw is 0, which its running total 0
\* reaches; at a later position it is never selected
C40_ZeroWeightOnlyFirstAtDrawZero ==
  SelectedByWeight =>
    /\ SelectedWeight = 0 <=> (last.outcomes[1].probability = 0 /\ last.draw = 0)
    /\ SelectedWeight = 0 => last.result.k = 1

\* the draw 0 selected the outcome of weight 0 in front of one of weight 0.8
C40_ZeroWeightFirstSelected ==
  /\ SelectedByWeight
  /\ Len(last.outcomes) = 2
  /\ last.outcomes[1].probability = 0
  /\ last.outcomes[2].probability = 8
  /\ last.draw = 0
  /\ last.result.k = 1

\* a draw equal to the running total in front of an outcome of weight 0
\* selected the outcome before it
C40_ZeroWeightLaterSkipped ==
  /\ SelectedByWeight
  /\ Len(last.outcomes) = 3
  /\ last.outcomes[1].probability = 2
  /\ last.outcomes[2].probability = 0
  /\ last.outcomes[3].probability = 8
  /\ last.draw * 10 = 2 * RandDen
  /\ last.result.k = 1

\* a positive draw went past the outcome of weight 0 at the front
C40_ZeroWeightFirstSkipped ==
  /\ SelectedByWeight
  /\ last.outcomes[1].probability = 0
  /\ last.draw > 0
  /\ last.result.k > 1

====
